---- MODULE Spec2Model ----
(***************************************************************************)
(* A model of the sequence/iterator backend of blaze                       *)
(* (blaze/compute/python.py) and of the table expressions it evaluates     *)
(* (blaze/expr/table.py).                                                  *)
(*                                                                         *)
(* One handler invocation is one run of a state machine: Init fixes the    *)
(* expression node t and the input data, the actions are the steps of the  *)
(* handler (a call, one next() of a lazy iterator, one turn of a loop).    *)
(* Every handler has a specification of its own over the shared variables; *)
(* the variables a handler does not use stay at their idle values.         *)
(*                                                                         *)
(* Python values: a row is a tuple (a TLA+ sequence), a string a TLA+      *)
(* string, an int an integer.  Python's None is NoneRow where a row is     *)
(* expected and NoneVal where a cell is expected.                          *)
(***************************************************************************)
EXTENDS Integers, Sequences, FiniteSets, TLC

VARIABLES
    t,              \* the expression node handed to compute_up
    seq,            \* the data behind the input sequence (lhs for Join)
    seqtype,        \* the runtime type of the input: "list", "tuple", "Iterator"
    pulled,         \* how many elements have been pulled from seq
    out,            \* what the handler has returned / yielded so far
    pc,             \* position in the handler
    total,          \* _var: total
    total_squared,  \* _var: total_squared
    count,          \* _var: count; cytoolz.count: its running count
    d,              \* reduceby / groupby dict
    seen,           \* unique: seen; toolz.join: seen_keys
    rhs,            \* Join: the data behind the right sequence
    rpulled,        \* Join: how many elements the right side has been handed
    same,           \* Join: lhs and rhs are one and the same iterator object
    tee,            \* Join: the buffers of itertools.tee(lhs, 2)
    pairs,          \* Join: the pairs toolz.join has yielded
    schema,         \* Join.schema, once evaluated
    row,            \* Distinct: row, the element first(seq) returned
    pending,        \* Distinct: what is left of [row] in concat([[row], seq])
    applied,        \* Distinct: how many times compute_up has been applied
    prev,           \* Distinct: the result of the application before this one
    children,       \* Union: the computed sequences of the children
    ci,             \* Union: the child that concat is reading
    datas,          \* Summary: the buffers of itertools.tee(data, len(expr.values))
    consumed,       \* Summary: the rows the reduction being computed has read
    ancestor,       \* recursive_rowfunc: stop, the ancestor the data belongs to
    stage,          \* the data as computed node by node, bottom-up, so far
    level,          \* how many nodes above stop have been computed
    registry,       \* Dispatcher.funcs: signature -> handler
    ordering,       \* Dispatcher.ordering: the signatures it has put in order
    resolving,      \* multipledispatch's switch: ordering is done at once
    unresolved,     \* the dispatcher waits for restart_ordering
    registered,     \* the @dispatch decorators applied so far, in order
    available,      \* the @dispatch decorators there are to apply
    indexes         \* the indexes of the SQL table: name and columns

vars == <<t, seq, seqtype, pulled, out, pc, total, total_squared, count, d, seen,
          rhs, rpulled, same, tee, pairs, schema, row, pending, applied, prev,
          children, ci, datas, consumed, ancestor, stage, level,
          registry, ordering, resolving, unresolved, registered, available,
          indexes>>

reductionLocals == <<total, total_squared, count>>
dictLocals == <<d, seen>>
joinLocals == <<rhs, rpulled, same, tee, pairs, schema>>
distinctLocals == <<row, pending, applied, prev>>

IdleReduction == total = 0 /\ total_squared = 0 /\ count = 0
IdleDict == d = <<>> /\ seen = {}
IdleJoin ==
    /\ rhs = <<>> /\ rpulled = 0 /\ same = FALSE
    /\ tee = <<>> /\ pairs = <<>> /\ schema = <<>>

IdleDistinct == row = <<>> /\ pending = <<>> /\ applied = 0 /\ prev = <<>>

unionLocals == <<children, ci>>
IdleUnion == children = <<>> /\ ci = 0

summaryLocals == <<datas, consumed>>
IdleSummary == datas = <<>> /\ consumed = <<>>

\* the locals of the handlers further down
fusionLocals == <<ancestor, stage, level>>
IdleFusion == ancestor = <<>> /\ stage = <<>> /\ level = 0

dispatchLocals == <<registry, ordering, resolving, unresolved, registered, available>>
IdleDispatch ==
    /\ registry = <<>> /\ ordering = {} /\ resolving = TRUE /\ unresolved = FALSE
    /\ registered = <<>> /\ available = {}

sqlLocals == <<indexes>>
IdleSql == indexes = {}

laterLocals == <<unionLocals, summaryLocals, fusionLocals, dispatchLocals, sqlLocals>>
IdleLater == IdleUnion /\ IdleSummary /\ IdleFusion /\ IdleDispatch /\ IdleSql

\* all locals but those of one handler
exceptUnion ==
    <<reductionLocals, dictLocals, joinLocals, distinctLocals, summaryLocals,
      fusionLocals, dispatchLocals, sqlLocals>>
exceptSummary ==
    <<reductionLocals, dictLocals, joinLocals, distinctLocals, unionLocals,
      fusionLocals, dispatchLocals, sqlLocals>>
exceptFusion ==
    <<reductionLocals, dictLocals, joinLocals, distinctLocals, unionLocals,
      summaryLocals, dispatchLocals, sqlLocals>>
exceptDispatch ==
    <<reductionLocals, dictLocals, joinLocals, distinctLocals, unionLocals,
      summaryLocals, fusionLocals, sqlLocals>>
exceptSql ==
    <<reductionLocals, dictLocals, joinLocals, distinctLocals, unionLocals,
      summaryLocals, fusionLocals, dispatchLocals>>
IdleExceptUnion ==
    /\ IdleReduction /\ IdleDict /\ IdleJoin /\ IdleDistinct /\ IdleSummary
    /\ IdleFusion /\ IdleDispatch /\ IdleSql
IdleExceptSummary ==
    /\ IdleReduction /\ IdleDict /\ IdleJoin /\ IdleDistinct /\ IdleUnion
    /\ IdleFusion /\ IdleDispatch /\ IdleSql
IdleExceptFusion ==
    /\ IdleReduction /\ IdleDict /\ IdleJoin /\ IdleDistinct /\ IdleUnion
    /\ IdleSummary /\ IdleDispatch /\ IdleSql
IdleExceptDispatch ==
    /\ IdleReduction /\ IdleDict /\ IdleJoin /\ IdleDistinct /\ IdleUnion
    /\ IdleSummary /\ IdleFusion /\ IdleSql
IdleExceptSql ==
    /\ IdleReduction /\ IdleDict /\ IdleJoin /\ IdleDistinct /\ IdleUnion
    /\ IdleSummary /\ IdleFusion /\ IdleDispatch

handlerLocals == <<reductionLocals, dictLocals, joinLocals, distinctLocals, laterLocals>>
IdleLocals == IdleReduction /\ IdleDict /\ IdleJoin /\ IdleDistinct /\ IdleLater

(***************************************************************************)
(* Bounds of the model.                                                    *)
(***************************************************************************)
MaxLen == 3

SeqsUpTo(S, n) == UNION {[1..k -> S] : k \in 0..n}

Range(s) == {s[i] : i \in 1..Len(s)}

(***************************************************************************)
(* Expressions.  A node is a record with its kind, its child and its       *)
(* parameters.                                                             *)
(***************************************************************************)
Symbol(name, fields) == [kind |-> "Symbol", name |-> name, fields |-> fields]

Projection(child, fields) ==
    [kind |-> "Projection", child |-> child, fields |-> fields]

Field(child, name) == [kind |-> "Field", child |-> child, name |-> name]

Broadcast(child, op, column, const) ==
    [kind |-> "Broadcast", child |-> child, op |-> op, column |-> column,
     const |-> const]

ReLabel(child, labels) == [kind |-> "ReLabel", child |-> child, labels |-> labels]

Label(child, label) == [kind |-> "Label", child |-> child, label |-> label]

Map(child, func) == [kind |-> "Map", child |-> child, func |-> func]

Selection(child, predicate) ==
    [kind |-> "Selection", child |-> child, predicate |-> predicate]

\* list.index(x): position of the first occurrence (1-based here)
Index(s, x) == CHOOSE i \in 1..Len(s) : s[i] = x /\ \A j \in 1..(i-1) : s[j] # x

RECURSIVE Fields(_)
Fields(e) ==
    CASE e.kind = "Symbol" -> e.fields
      [] e.kind = "Projection" -> e.fields
      [] e.kind = "Field" -> <<e.name>>
      [] e.kind = "Label" -> <<e.label>>
      [] e.kind = "ReLabel" ->
            [i \in 1..Len(Fields(e.child)) |->
                IF \E l \in Range(e.labels) : l[1] = Fields(e.child)[i]
                THEN (CHOOSE l \in Range(e.labels) : l[1] = Fields(e.child)[i])[2]
                ELSE Fields(e.child)[i]]
      [] OTHER -> Fields(e.child)

\* cytoolz get(indices, row): the tuple of the row's values at the indices
Get(indices, x) == [i \in 1..Len(indices) |-> x[indices[i]]]

\* the scalar operators a Broadcast applies
ScalarOp(op, a, b) ==
    CASE op = "Lt" -> a < b
      [] op = "Gt" -> a > b
      [] op = "Le" -> a <= b
      [] op = "Ne" -> a # b
      [] op = "Neg" -> 0 - a
      [] op = "Add" -> a + b
      [] op = "Mul" -> a * b

\* the functions a Map is given: on a scalar, or on the cells of a row
\* (name, amount, id) handed over as arguments
MapFunc(func, x) ==
    CASE func = "inc" -> x + 1
      [] func = "double" -> 2 * x
      [] func = "spread" -> x[2] - x[3]

\* rowfunc(t)(x): the local row function of an element-wise node
RowFunc(e, x) ==
    CASE e.kind = "Symbol" -> x
      [] e.kind = "Projection" ->
            Get([i \in 1..Len(e.fields) |-> Index(Fields(e.child), e.fields[i])], x)
      [] e.kind = "Field" -> x[Index(Fields(e.child), e.name)]
      [] e.kind = "Broadcast" ->
            ScalarOp(e.op, x[Index(Fields(e.child), e.column)], e.const)
      [] e.kind = "ReLabel" -> x
      [] e.kind = "Label" -> x
      [] e.kind = "Map" -> MapFunc(e.func, x)

RECURSIVE RowFuncChain(_, _)
\* the walk ended at the first node of the same kind as stop
RowFuncChainToKind(e, stop) ==
    IF e.kind = stop.kind THEN <<>> ELSE <<e>> \o RowFuncChain(e.child, stop)

\* the list funcs that recursive_rowfunc builds: t, t._child, ... up to stop
RowFuncChain(e, stop) ==
    IF e = stop THEN <<>> ELSE <<e>> \o RowFuncChain(e.child, stop)

\* toolz compose(*funcs)(x): the last function is applied first
RECURSIVE Compose(_, _)
Compose(funcs, x) ==
    IF funcs = <<>> THEN x
    ELSE RowFunc(funcs[1], Compose(Tail(funcs), x))

\* recursive_rowfunc(t, stop)(x)
rrowfunc(e, stop, x) == Compose(RowFuncChain(e, stop), x)

\* deepmap(func, data, n=1) for func = rowfunc(e)
DeepMap(e, data) == [i \in 1..Len(data) |-> RowFunc(e, data[i])]

(***************************************************************************)
(* compute_up(Selection, Sequence)                                         *)
(***************************************************************************)
accounts == Symbol("accounts", <<"name", "amount">>)

AccountRows ==
    {<<"Alice", 100>>, <<"Bob", -50>>, <<"Charlie", -20>>, <<"Alice", 0>>}

PredicateOps == {"Lt", "Gt", "Ne"}

\* accounts[accounts['amount'] op 0], and the same predicate built on a
\* reordered projection of accounts
Selections ==
    {Selection(accounts, Broadcast(c, op, "amount", 0)) :
        c \in {accounts, Projection(accounts, <<"amount", "name">>)},
        op \in PredicateOps}

InitSelection ==
    /\ t \in Selections
    /\ seq \in SeqsUpTo(AccountRows, MaxLen)
    /\ pulled = 0
    /\ out = <<>>
    /\ pc = "call"
    /\ seqtype = "list"
    /\ IdleReduction /\ IdleDict /\ IdleJoin /\ IdleDistinct
    /\ IdleLater

\* predicate = rrowfunc(t.predicate, t._child)
predicate(x) == rrowfunc(t.predicate, t.child, x)

\* filter(predicate, seq).__next__: the position of the next element to yield
FilterAdvanceSkipsOne(from) ==
    IF \E i \in (from+2)..Len(seq) : predicate(seq[i])
    THEN CHOOSE i \in (from+2)..Len(seq) :
            predicate(seq[i]) /\ \A j \in (from+2)..(i-1) : ~predicate(seq[j])
    ELSE 0

FilterAdvance(from) ==
    IF \E i \in (from+1)..Len(seq) : predicate(seq[i])
    THEN CHOOSE i \in (from+1)..Len(seq) :
            predicate(seq[i]) /\ \A j \in (from+1)..(i-1) : ~predicate(seq[j])
    ELSE 0

\* the call: builds the predicate and returns the lazy filter object
SelectionCall ==
    /\ pc = "call"
    /\ pc' = "lazy"
    /\ UNCHANGED <<laterLocals, t, seq, seqtype, distinctLocals, pulled, out, reductionLocals, dictLocals, joinLocals>>

\* one next() on the filter object that yields a row
SelectionNext ==
    /\ pc = "lazy"
    /\ FilterAdvance(pulled) # 0
    /\ pulled' = FilterAdvance(pulled)
    /\ out' = Append(out, seq[FilterAdvance(pulled)])
    /\ UNCHANGED <<laterLocals, t, seq, seqtype, distinctLocals, pc, reductionLocals, dictLocals, joinLocals>>

\* one next() on the filter object that runs into the end of the input
SelectionStop ==
    /\ pc = "lazy"
    /\ FilterAdvance(pulled) = 0
    /\ pulled' = Len(seq)
    /\ pc' = "done"
    /\ UNCHANGED <<laterLocals, t, seq, seqtype, distinctLocals, out, reductionLocals, dictLocals, joinLocals>>

NextSelection == SelectionCall \/ SelectionNext \/ SelectionStop

SpecSelection == InitSelection /\ [][NextSelection]_vars

\* the rows of s for which the fused predicate is true, in order
RECURSIVE RowsWhere(_)
RowsWhere(s) ==
    IF s = <<>> THEN <<>>
    ELSE IF predicate(s[Len(s)])
         THEN Append(RowsWhere(SubSeq(s, 1, Len(s) - 1)), s[Len(s)])
         ELSE RowsWhere(SubSeq(s, 1, Len(s) - 1))

\* what the predicate expressions of Selections mean on a row of accounts
AmountHolds(x) ==
    CASE t.predicate.op = "Lt" -> x[2] < 0
      [] t.predicate.op = "Gt" -> x[2] > 0
      [] t.predicate.op = "Ne" -> x[2] # 0

\* C1: compute_up(Selection, seq) yields exactly the rows of seq for which
\* the fused predicate rrowfunc(t.predicate, t._child) is true, each as often
\* as it occurs, unaltered and in input order; the predicate amount < 0 over
\* (Alice,100),(Bob,-50),(Charlie,-20), projected to name, gives Bob, Charlie.
\* Nothing is pulled by the call itself (the result is lazy).
C1_SelectionFilters ==
    /\ pc = "call" => (pulled = 0 /\ out = <<>>)
    /\ pc = "lazy" => out = RowsWhere(SubSeq(seq, 1, pulled))
    /\ pc = "done" =>
        /\ out = RowsWhere(seq)
        /\ out = SelectSeq(seq, AmountHolds)
        /\ (seq = <<<<"Alice", 100>>, <<"Bob", -50>>, <<"Charlie", -20>>>>
              /\ t.predicate.op = "Lt")
            => DeepMap(Field(t, "name"), out) = <<"Bob", "Charlie">>

C1_Witness ==
    /\ pc = "done"
    /\ t.predicate.op = "Lt"
    /\ seq = <<<<"Alice", 100>>, <<"Bob", -50>>, <<"Charlie", -20>>>>
    /\ out = <<<<"Bob", -50>>, <<"Charlie", -20>>>>

(***************************************************************************)
(* compute_up(Reduction, Sequence) and compute_up_1d                       *)
(***************************************************************************)
MaxValues == 4

Reduction(kind, child, unbiased, axis, keepdims) ==
    [kind |-> kind, symbol |-> kind, child |-> child, unbiased |-> unbiased,
     axis |-> axis, keepdims |-> keepdims]

\* a one-column source for the 1-D reductions
column == Symbol("x", <<"x">>)

ReductionValues == 0..4

Reductions ==
    {Reduction(k, column, u, a, kd) :
        k \in {"sum", "count", "var"}, u \in BOOLEAN, a \in {<<0>>, <<1>>},
        kd \in BOOLEAN}

InitReduction ==
    /\ t \in {r \in Reductions : r.kind # "var" => ~r.unbiased}
    /\ seq \in SeqsUpTo(ReductionValues, MaxValues)
    /\ pulled = 0
    /\ out = <<>>
    /\ pc = "call"
    /\ seqtype = "list"
    /\ IdleReduction /\ IdleDict /\ IdleJoin /\ IdleDistinct
    /\ IdleLater

\* bool(x) of an int
Truthy(x) == x # 0

\* int(b) of a bool, as Python's arithmetic on True and False takes it
BoolInt(b) == IF b THEN 1 ELSE 0

\* exact quotients: a float result is kept as a fraction <<numerator,
\* denominator>> in lowest terms with a positive denominator
RECURSIVE GCD(_, _)
GCD(a, b) == IF b = 0 THEN a ELSE GCD(b, a % b)

Abs(x) == IF x < 0 THEN -x ELSE x

Frac(n, dn) ==
    LET g == GCD(Abs(n), Abs(dn))
        s == IF dn < 0 THEN -1 ELSE 1
    IN  <<(s * n) \div g, (s * dn) \div g>>

\* the return expression of _var with Python 2's truncating division on ints
VarReturnFloorDiv(tot, totsq, cnt, unbiased) ==
    Frac((totsq - ((tot * tot) \div cnt)) \div (cnt - BoolInt(unbiased)), 1)

\* the return expression of _var:
\*   (total_squared - (total * total) / count) / (count - unbiased)
\* under "from __future__ import division"
VarReturn(tot, totsq, cnt, unbiased) ==
    LET inner == Frac(tot * tot, cnt)                       \* (total*total)/count
        diff == Frac(totsq * inner[2] - inner[1], inner[2]) \* total_squared - ...
    IN  Frac(diff[1], diff[2] * (cnt - BoolInt(unbiased)))

\* if t.keepdims: return (result,) else: return result
KeepDims(result) == IF t.keepdims THEN <<result>> ELSE result

\* compute_up(Reduction, seq) with t.axis != (0,)
ReductionRaise ==
    /\ pc = "call"
    /\ t.axis # <<0>>
    /\ pc' = "NotImplementedError"
    /\ UNCHANGED <<laterLocals, t, seq, seqtype, distinctLocals, pulled, out, reductionLocals, dictLocals, joinLocals>>

\* compute_up(Reduction, seq) reaching compute_up_1d
ReductionCall ==
    /\ pc = "call"
    /\ t.axis = <<0>>
    /\ pc' = "compute_up_1d"
    /\ UNCHANGED <<laterLocals, t, seq, seqtype, distinctLocals, pulled, out, reductionLocals, dictLocals, joinLocals>>

RECURSIVE SumSeq(_)
SumSeq(s) == IF s = <<>> THEN 0 ELSE s[1] + SumSeq(Tail(s))

\* compute_up_1d(Reduction, seq): op = getattr(builtins, t.symbol); op(seq)
BuiltinReduction ==
    /\ pc = "compute_up_1d"
    /\ t.symbol = "sum"
    /\ pulled' = Len(seq)
    /\ out' = KeepDims(SumSeq(seq))
    /\ pc' = "done"
    /\ UNCHANGED <<laterLocals, t, seq, seqtype, distinctLocals, reductionLocals, dictLocals, joinLocals>>

\* what one element adds to the running count of cytoolz.count(filter(None, seq))
CountIncrement(item) == IF Truthy(item) THEN 1 ELSE 0

\* compute_up_1d(count, seq): one element pulled through filter(None, seq)
CountLoop ==
    /\ pc = "compute_up_1d"
    /\ t.kind = "count"
    /\ pulled < Len(seq)
    /\ pulled' = pulled + 1
    /\ count' = count + CountIncrement(seq[pulled + 1])
    /\ UNCHANGED <<laterLocals, t, seq, seqtype, distinctLocals, out, pc, total, total_squared, dictLocals, joinLocals>>

CountReturn ==
    /\ pc = "compute_up_1d"
    /\ t.kind = "count"
    /\ pulled = Len(seq)
    /\ out' = KeepDims(count)
    /\ pc' = "done"
    /\ UNCHANGED <<laterLocals, t, seq, seqtype, distinctLocals, pulled, reductionLocals, dictLocals, joinLocals>>

\* _var: one turn of "for item in seq"
VarLoop ==
    /\ pc = "compute_up_1d"
    /\ t.kind = "var"
    /\ pulled < Len(seq)
    /\ pulled' = pulled + 1
    /\ total' = total + seq[pulled + 1]
    /\ total_squared' = total_squared + seq[pulled + 1] * seq[pulled + 1]
    /\ count' = count + 1
    /\ UNCHANGED <<laterLocals, t, seq, seqtype, distinctLocals, out, pc, dictLocals, joinLocals>>

\* _var: the return statement, which divides by count and by count - unbiased
VarReturnStep ==
    /\ pc = "compute_up_1d"
    /\ t.kind = "var"
    /\ pulled = Len(seq)
    /\ IF count = 0 \/ count - BoolInt(t.unbiased) = 0
       THEN pc' = "ZeroDivisionError" /\ out' = out
       ELSE /\ out' = KeepDims(VarReturn(total, total_squared, count, t.unbiased))
            /\ pc' = "done"
    /\ UNCHANGED <<laterLocals, t, seq, seqtype, distinctLocals, pulled, reductionLocals, dictLocals, joinLocals>>

NextReduction ==
    \/ ReductionRaise
    \/ ReductionCall
    \/ BuiltinReduction
    \/ CountLoop
    \/ CountReturn
    \/ VarLoop
    \/ VarReturnStep

SpecReduction == InitReduction /\ [][NextReduction]_vars

\* the value the reduction returned (keepdims wraps it in a 1-tuple)
Returned == IF t.keepdims THEN out[1] ELSE out

RECURSIVE SumSquares(_)
SumSquares(s) == IF s = <<>> THEN 0 ELSE s[1] * s[1] + SumSquares(Tail(s))

\* C2: the count reduction over a finite 1-D sequence returns the number of
\* elements of the sequence ([1,2,3,4] gives 4).
C2_CountIsLength ==
    (pc = "done" /\ t.kind = "count") => Returned = Len(seq)

\* C3: over n >= 1 integers (n >= 2 when unbiased) var returns
\* (sum of x*x - (sum of x)^2 / n) / (n - u), u = 1 when unbiased and 0
\* otherwise, as an exact quotient; [1,2,3,4] gives 5/4 and 5/3.
C3_VarFormula ==
    /\ (pc = "done" /\ t.kind = "var") =>
        LET n == Len(seq)
            u == IF t.unbiased THEN 1 ELSE 0
        IN  /\ n >= 1 /\ n - u >= 1
            \* Returned = (n * sumsq - sum^2) / (n * (n - u)), cross-multiplied
            /\ Returned[2] > 0
            /\ Returned[1] * (n * (n - u))
                 = (n * SumSquares(seq) - SumSeq(seq) * SumSeq(seq)) * Returned[2]
            /\ seq = <<1, 2, 3, 4>> =>
                 Returned = (IF t.unbiased THEN <<5, 3>> ELSE <<5, 4>>)
    /\ (pc = "ZeroDivisionError") =>
        (Len(seq) = 0 \/ (Len(seq) = 1 /\ t.unbiased))

C3_Witness ==
    /\ pc = "done"
    /\ t.kind = "var"
    /\ t.unbiased
    /\ ~t.keepdims
    /\ seq = <<1, 2, 3, 4>>
    /\ out = <<5, 3>>

(***************************************************************************)
(* compute_up(By, Sequence)                                                *)
(***************************************************************************)
By(grouper, apply) ==
    [kind |-> "By", grouper |-> grouper, apply |-> apply, child |-> grouper.child]

tbl == Symbol("t", <<"name", "amount", "id">>)

ByRows ==
    {<<"Alice", 100, 1>>, <<"Bob", 200, 2>>, <<"Alice", 50, 3>>,
     <<"Bob", -50, 1>>, <<"Alice", 0, 1>>}

\* the reductions that have an entry in binops
BinopKinds == {"sum", "min", "max", "count"}

Bys ==
    {By(g, Reduction(k, Field(tbl, "amount"), FALSE, <<0>>, FALSE)) :
        g \in {Field(tbl, "name"), Projection(tbl, <<"name", "id">>)},
        k \in BinopKinds \cup {"nunique"}}

\* the magnitude of the initial accumulators 1e250 and -1e250 of min and max
Init1e250 == 1000000

lesser(x, y) == IF x < y THEN x ELSE y
greater(x, y) == IF x > y THEN x ELSE y
countit(acc, x) == acc + 1

\* binops[kind][0] with the max entry folding with lesser, as its combiner does
BinopMaxLesser(kind, acc, x) ==
    CASE kind = "sum" -> acc + x
      [] kind = "min" -> lesser(acc, x)
      [] kind = "max" -> lesser(acc, x)
      [] kind = "count" -> countit(acc, x)

\* binops[kind][0]; or_ and and_ are taken on bools
Binop(kind, acc, x) ==
    CASE kind = "sum" -> acc + x
      [] kind = "min" -> lesser(acc, x)
      [] kind = "max" -> greater(acc, x)
      [] kind = "count" -> countit(acc, x)
      [] kind = "any" -> (acc \/ x)
      [] kind = "all" -> (acc /\ x)

\* binops[kind][2]
Initial(kind) ==
    CASE kind = "sum" -> 0
      [] kind = "min" -> Init1e250
      [] kind = "max" -> -Init1e250
      [] kind = "count" -> 0
      [] kind = "any" -> FALSE
      [] kind = "all" -> TRUE

\* grouper = rrowfunc(t.grouper, t._child)
grouper(x) == rrowfunc(t.grouper, t.child, x)

\* applier = rrowfunc(t.apply._child, t._child)
applier(x) == rrowfunc(t.apply.child, t.child, x)

\* binop2 of reduce_by_funcs: binop(acc, applier(x))
Binop2(acc, x) == Binop(t.apply.kind, acc, applier(x))

\* d with d[k] = v set
DictSet(dict, k, v) ==
    [x \in (DOMAIN dict) \cup {k} |-> IF x = k THEN v ELSE dict[x]]

\* isscalar(e.dshape.measure)
IsScalarMeasure(e) == e.kind \notin {"Symbol", "Projection", "ReLabel", "Selection"}

keyfunc(k) == IF IsScalarMeasure(t.grouper) THEN <<k>> ELSE k
valfunc(v) == IF IsScalarMeasure(t.apply) THEN <<v>> ELSE v

InitBy ==
    /\ t \in Bys
    /\ seq \in SeqsUpTo(ByRows, MaxLen)
    /\ pulled = 0
    /\ out = <<>>
    /\ pc = "call"
    /\ seqtype = "list"
    /\ IdleReduction /\ IdleDict /\ IdleJoin /\ IdleDistinct
    /\ IdleLater

\* the test at the head of compute_up(By, seq)
ByCall ==
    /\ pc = "call"
    /\ pc' = (IF t.apply.kind \in BinopKinds THEN "reduceby" ELSE "groupby")
    /\ UNCHANGED <<laterLocals, t, seq, seqtype, distinctLocals, pulled, out, reductionLocals, dictLocals, joinLocals>>

\* reduceby(grouper, binop, seq, initial): one element
ReduceByLoop ==
    /\ pc = "reduceby"
    /\ pulled < Len(seq)
    /\ LET item == seq[pulled + 1]
           key == grouper(item)
           acc == IF key \in DOMAIN d THEN d[key] ELSE Initial(t.apply.kind)
       IN  d' = DictSet(d, key, Binop2(acc, item))
    /\ pulled' = pulled + 1
    /\ UNCHANGED <<laterLocals, t, seq, seqtype, distinctLocals, out, pc, seen, reductionLocals, joinLocals>>

\* groupby(grouper, seq): one element
GroupByLoop ==
    /\ pc = "groupby"
    /\ pulled < Len(seq)
    /\ LET item == seq[pulled + 1]
           key == grouper(item)
       IN  d' = DictSet(d, key,
                        IF key \in DOMAIN d THEN Append(d[key], item) ELSE <<item>>)
    /\ pulled' = pulled + 1
    /\ UNCHANGED <<laterLocals, t, seq, seqtype, distinctLocals, out, pc, seen, reductionLocals, joinLocals>>

\* compute_up_1d(nunique, seq): len(set(seq))
nunique(s) == Cardinality(Range(s))

\* compute(t.apply, {t._child: v}) for the reductions outside binops:
\* the apply's child is mapped over the group, then reduced
ComputeApply(v) ==
    CASE t.apply.kind = "nunique" -> nunique(DeepMap(t.apply.child, v))

\* d = dict((k, compute(t.apply, {t._child: v})) for k, v in groups.items())
ByComputeGroups ==
    /\ pc = "groupby"
    /\ pulled = Len(seq)
    /\ d' = [k \in DOMAIN d |-> ComputeApply(d[k])]
    /\ pc' = "items"
    /\ UNCHANGED <<laterLocals, t, seq, seqtype, distinctLocals, pulled, out, seen, reductionLocals, joinLocals>>

ReduceByDone ==
    /\ pc = "reduceby"
    /\ pulled = Len(seq)
    /\ pc' = "items"
    /\ UNCHANGED <<laterLocals, t, seq, seqtype, distinctLocals, pulled, out, d, seen, reductionLocals, joinLocals>>

\* the orders in which a dict may hand out the keys in S
Orders(S) ==
    {o \in [1..Cardinality(S) -> S] : \A i, j \in 1..Cardinality(S) : i # j => o[i] # o[j]}

\* return tuple(keyfunc(k) + valfunc(v) for k, v in d.items())
ByReturn ==
    /\ pc = "items"
    /\ \E o \in Orders(DOMAIN d) :
          out' = [i \in 1..Len(o) |-> keyfunc(o[i]) \o valfunc(d[o[i]])]
    /\ pc' = "done"
    /\ UNCHANGED <<laterLocals, t, seq, seqtype, distinctLocals, pulled, d, seen, reductionLocals, joinLocals>>

NextBy ==
    \/ ByCall
    \/ ReduceByLoop
    \/ GroupByLoop
    \/ ByComputeGroups
    \/ ReduceByDone
    \/ ByReturn

SpecBy == InitBy /\ [][NextBy]_vars

\* the key of a row of tbl under the groupers of Bys
KeyOf(x) == IF t.grouper.kind = "Field" THEN <<x[1]>> ELSE <<x[1], x[3]>>

\* the amounts of the rows of seq whose key is k, in input order
RECURSIVE AmountsOf(_, _)
AmountsOf(s, k) ==
    IF s = <<>> THEN <<>>
    ELSE (IF KeyOf(s[1]) = k THEN <<s[1][2]>> ELSE <<>>) \o AmountsOf(Tail(s), k)

\* the apply reduction over a non-empty list of amounts
Reduce(kind, a) ==
    CASE kind = "sum" -> SumSeq(a)
      [] kind = "min" -> CHOOSE m \in Range(a) : \A x \in Range(a) : m <= x
      [] kind = "max" -> CHOOSE m \in Range(a) : \A x \in Range(a) : m >= x
      [] kind = "count" -> Len(a)
      [] kind = "nunique" -> Cardinality(Range(a))

KeyLen == IF t.grouper.kind = "Field" THEN 1 ELSE 2

\* C4: compute_up(By, seq) returns exactly one row per distinct grouper key
\* of the input and no other row; a row is the key field(s) followed by the
\* apply reduction over exactly the input rows that have the key.
C4_ByGroups ==
    pc = "done" =>
        /\ {SubSeq(out[i], 1, KeyLen) : i \in 1..Len(out)}
             = {KeyOf(seq[i]) : i \in 1..Len(seq)}
        /\ Len(out) = Cardinality({KeyOf(seq[i]) : i \in 1..Len(seq)})
        /\ \A i \in 1..Len(out) :
              /\ Len(out[i]) = KeyLen + 1
              /\ out[i][KeyLen + 1]
                   = Reduce(t.apply.kind, AmountsOf(seq, SubSeq(out[i], 1, KeyLen)))
        /\ (seq = <<<<"Alice", 100, 1>>, <<"Bob", 200, 2>>, <<"Alice", 50, 3>>>>
              /\ t.grouper.kind = "Field" /\ t.apply.kind = "sum")
            => Range(out) = {<<"Alice", 150>>, <<"Bob", 200>>}

C4_Witness ==
    /\ pc = "done"
    /\ t.grouper.kind = "Field"
    /\ t.apply.kind = "sum"
    /\ seq = <<<<"Alice", 100, 1>>, <<"Bob", 200, 2>>, <<"Alice", 50, 3>>>>
    /\ out = <<<<"Bob", 200>>, <<"Alice", 150>>>>

(***************************************************************************)
(* Join: the node, Join.schema, pair_assemble and                          *)
(* compute_up(Join, Sequence, Sequence)                                    *)
(***************************************************************************)
MaxJoinLen == 2

NoneRow == <<>>
NoneVal == "None"

\* toolz.itertoolz.no_default
no_default == <<"__no__default__">>

TableSymbol(name, fields, types) ==
    [kind |-> "Symbol", name |-> name, fields |-> fields, types |-> types]

\* on_left / on_right: a str (one column name) or a list of column names
OnStr(col) == [islist |-> FALSE, cols |-> <<col>>]
OnList(cols) == [islist |-> TRUE, cols |-> cols]

Join(l, r, on_left, on_right, how) ==
    [kind |-> "Join", lhs |-> l, rhs |-> r, on_left |-> on_left,
     on_right |-> on_right, how |-> how]

\* listpack(x): a list stays a list, anything else becomes a one-element list
listpack(on) == on.cols

\* a in b for two str: a occurs in b as a substring
IsSubstring(a, b) ==
    \E i \in 1..Len(b) : \E j \in i..Len(b) : SubSeq(b, i, j) = a

\* "name in self.on_left": membership in a list, containment in a str
NameIn(name, on) ==
    IF on.islist THEN name \in Range(on.cols) ELSE IsSubstring(name, on.cols[1])

\* datashape types: <<"int32">> is int32, <<"Option", "int32">> is ?int32
IsOption(dt) == dt[1] = "Option"

\* option = lambda dt: dt if isinstance(dt, Option) else Option(dt)
option(dt) == IF IsOption(dt) THEN dt ELSE <<"Option">> \o dt

\* e.schema[0].parameters[0]: the (name, type) pairs of a table
Parameters(e) == [i \in 1..Len(e.fields) |-> <<e.fields[i], e.types[i]>>]

\* Join.schema: the (name, type) pairs of the Record it returns
JoinSchema(e) ==
    LET joined == SelectSeq(Parameters(e.lhs), LAMBDA p : NameIn(p[1], e.on_left))
        left == SelectSeq(Parameters(e.lhs), LAMBDA p : ~NameIn(p[1], e.on_left))
        right == SelectSeq(Parameters(e.rhs), LAMBDA p : ~NameIn(p[1], e.on_right))
        left2 == IF e.how \in {"right", "outer"}
                 THEN [i \in 1..Len(left) |-> <<left[i][1], option(left[i][2])>>]
                 ELSE left
        right2 == IF e.how \in {"left", "outer"}
                  THEN [i \in 1..Len(right) |-> <<right[i][1], option(right[i][2])>>]
                  ELSE right
    IN  joined \o left2 \o right2

\* for every entry of Join.schema, the side ("L" or "R") whose table it is
\* taken from, with its name: joined and left come from lhs, right from rhs
JoinSchemaOrigin(e) ==
    LET joined == SelectSeq(Parameters(e.lhs), LAMBDA p : NameIn(p[1], e.on_left))
        left == SelectSeq(Parameters(e.lhs), LAMBDA p : ~NameIn(p[1], e.on_left))
        right == SelectSeq(Parameters(e.rhs), LAMBDA p : ~NameIn(p[1], e.on_right))
    IN  [i \in 1..Len(joined) |-> <<"L", joined[i][1]>>]
        \o [i \in 1..Len(left) |-> <<"L", left[i][1]>>]
        \o [i \in 1..Len(right) |-> <<"R", right[i][1]>>]

\* on_left = [t.lhs.fields.index(col) for col in listpack(t.on_left)]
on_left == [i \in 1..Len(listpack(t.on_left)) |->
                Index(t.lhs.fields, listpack(t.on_left)[i])]

on_right == [i \in 1..Len(listpack(t.on_right)) |->
                Index(t.rhs.fields, listpack(t.on_right)[i])]

\* the positions of the columns of fields that are not among cols, in order
SelfColumns(fields, cols) ==
    SelectSeq([i \in 1..Len(fields) |-> i], LAMBDA i : fields[i] \notin Range(cols))

left_self_columns == SelfColumns(t.lhs.fields, listpack(t.on_left))
right_self_columns == SelfColumns(t.rhs.fields, listpack(t.on_right))

\* (None,) * n
Nones(n) == [i \in 1..n |-> NoneVal]

\* pair_assemble(t)(pair)
assemble(pair) ==
    LET a == pair[1]
        b == pair[2]
        joined == IF a # NoneRow THEN Get(on_left, a) ELSE Get(on_right, b)
        left_entries == IF a # NoneRow THEN Get(left_self_columns, a)
                        ELSE Nones(Len(t.lhs.fields) - Len(on_left))
        right_entries == IF b # NoneRow THEN Get(right_self_columns, b)
                         ELSE Nones(Len(t.rhs.fields) - Len(on_right))
    IN  joined \o left_entries \o right_entries

\* left_default with the test of right_default
left_default_swapped == IF t.how \in {"left", "outer"} THEN NoneRow ELSE no_default

\* left_default = None if t.how in ('right', 'outer') else no_default
left_default == IF t.how \in {"right", "outer"} THEN NoneRow ELSE no_default

\* right_default = None if t.how in ('left', 'outer') else no_default
right_default == IF t.how \in {"left", "outer"} THEN NoneRow ELSE no_default

\* the test "lhs == rhs" left out
TeeGuardNever == FALSE

\* "lhs == rhs": identity for iterators, equal contents for lists
TeeGuard == same \/ seq = rhs

Hows == {"inner", "outer", "left", "right"}

names == TableSymbol("names", <<"id", "name", "acct">>,
                     <<<<"int32">>, <<"string">>, <<"int32">>>>)
amounts == TableSymbol("amounts", <<"amount", "id", "acct">>,
                       <<<<"string">>, <<"int32">>, <<"int32">>>>)

NamesRows == {<<"1", "a", "1">>, <<"1", "b", "2">>, <<"2", "a", "1">>}
AmountsRows == {<<"x", "1", "1">>, <<"y", "1", "2">>, <<"z", "3", "1">>}

\* the key columns the joins of the model are made on
JoinKeys ==
    {<<OnStr("id"), OnStr("id")>>,
     <<OnList(<<"id">>), OnList(<<"acct">>)>>,
     <<OnList(<<"id", "acct">>), OnList(<<"id", "acct">>)>>,
     <<OnList(<<"acct", "id">>), OnList(<<"acct", "id">>)>>}

Joins == {Join(names, amounts, k[1], k[2], how) : k \in JoinKeys, how \in Hows}

SelfJoins ==
    {Join(names, names, k, k, how) :
        k \in {OnStr("id"), OnList(<<"id", "acct">>)}, how \in Hows}

InitJoin ==
    /\ \/ /\ same = FALSE
          /\ seqtype = "list"
          /\ t \in Joins
          /\ seq \in SeqsUpTo(NamesRows, MaxJoinLen)
          /\ rhs \in SeqsUpTo(AmountsRows, MaxJoinLen)
       \/ /\ same = TRUE
          /\ seqtype = "Iterator"
          /\ t \in SelfJoins
          /\ seq \in SeqsUpTo(NamesRows, MaxJoinLen)
          /\ rhs = seq
    /\ pulled = 0
    /\ rpulled = 0
    /\ out = <<>>
    /\ pc = "call"
    /\ tee = <<>>
    /\ pairs = <<>>
    /\ schema = <<>>
    /\ IdleReduction /\ IdleDict /\ IdleDistinct
    /\ IdleLater

\* the call: tees when lhs == rhs and returns the lazy map(assemble, pairs)
JoinCall ==
    /\ pc = "call"
    /\ tee' = (IF TeeGuard THEN <<<<>>, <<>>>> ELSE <<>>)
    /\ pc' = "groupby"
    /\ UNCHANGED <<laterLocals, t, seq, seqtype, distinctLocals, pulled, out, rhs, rpulled, same, pairs, schema,
                   reductionLocals, dictLocals>>

\* toolz.join, d = groupby(leftkey, leftseq): one element of the left side;
\* a tee hands the element to the other branch's buffer as well
JoinGroupLeft ==
    /\ pc = "groupby"
    /\ pulled < Len(seq)
    /\ LET item == seq[pulled + 1]
           key == Get(on_left, item)
       IN  /\ d' = DictSet(d, key,
                       IF key \in DOMAIN d THEN Append(d[key], item) ELSE <<item>>)
           /\ tee' = (IF tee # <<>> THEN <<tee[1], Append(tee[2], item)>> ELSE tee)
    /\ pulled' = pulled + 1
    /\ UNCHANGED <<laterLocals, t, seq, seqtype, distinctLocals, out, pc, seen, rhs, rpulled, same, pairs, schema,
                   reductionLocals>>

JoinGroupDone ==
    /\ pc = "groupby"
    /\ pulled = Len(seq)
    /\ pc' = "right"
    /\ UNCHANGED <<laterLocals, t, seq, seqtype, distinctLocals, pulled, out, rhs, rpulled, same, tee, pairs, schema,
                   reductionLocals, dictLocals>>

\* whether the right sequence has a next element: from the tee's buffer, from
\* the iterator shared with the left side, or from the right data
RightHasNext ==
    IF tee # <<>> THEN tee[2] # <<>>
    ELSE IF same THEN pulled < Len(seq)
    ELSE rpulled < Len(rhs)

RightItem ==
    IF tee # <<>> THEN tee[2][1]
    ELSE IF same THEN seq[pulled + 1]
    ELSE rhs[rpulled + 1]

\* the pairs toolz.join yields for one item of the right sequence
PairsFor(item) ==
    LET key == Get(on_right, item)
    IN  IF key \in DOMAIN d
        THEN [i \in 1..Len(d[key]) |-> <<d[key][i], item>>]
        ELSE IF left_default # no_default THEN <<<<left_default, item>>>>
        ELSE <<>>

\* toolz.join, "for item in rightseq": one element of the right side
JoinRight ==
    /\ pc = "right"
    /\ RightHasNext
    /\ seen' = seen \cup {Get(on_right, RightItem)}
    /\ pairs' = pairs \o PairsFor(RightItem)
    /\ out' = out \o [i \in 1..Len(PairsFor(RightItem)) |->
                        assemble(PairsFor(RightItem)[i])]
    /\ rpulled' = rpulled + 1
    /\ tee' = (IF tee # <<>> THEN <<tee[1], Tail(tee[2])>> ELSE tee)
    /\ pulled' = (IF tee = <<>> /\ same THEN pulled + 1 ELSE pulled)
    /\ UNCHANGED <<laterLocals, t, seq, seqtype, distinctLocals, pc, d, rhs, same, schema, reductionLocals>>

RECURSIVE Flatten(_)
Flatten(ss) == IF ss = <<>> THEN <<>> ELSE ss[1] \o Flatten(Tail(ss))

\* toolz.join after the right sequence has ended: the left rows whose key
\* was never seen, paired with right_default, key by key in the dict's order
JoinLeftOver ==
    /\ pc = "right"
    /\ ~RightHasNext
    /\ \E o \in Orders(DOMAIN d \ seen) :
          LET rest == IF right_default # no_default
                      THEN Flatten([i \in 1..Len(o) |->
                              [j \in 1..Len(d[o[i]]) |-> <<d[o[i]][j], right_default>>]])
                      ELSE <<>>
          IN  /\ pairs' = pairs \o rest
              /\ out' = out \o [i \in 1..Len(rest) |-> assemble(rest[i])]
    /\ pc' = "done"
    /\ UNCHANGED <<laterLocals, t, seq, seqtype, distinctLocals, pulled, d, seen, rhs, rpulled, same, tee, schema,
                   reductionLocals>>

NextJoin ==
    \/ JoinCall
    \/ JoinGroupLeft
    \/ JoinGroupDone
    \/ JoinRight
    \/ JoinLeftOver

SpecJoin == InitJoin /\ [][NextJoin]_vars

\* how often x occurs in the sequence s
Occurrences(s, x) == Cardinality({i \in 1..Len(s) : s[i] = x})

\* the left row at position i and the right row at position j of R have
\* equal key values
KeysEqual(R, i, j) ==
    \A k \in 1..Len(listpack(t.on_left)) :
        seq[i][Index(t.lhs.fields, listpack(t.on_left)[k])]
          = R[j][Index(t.rhs.fields, listpack(t.on_right)[k])]

\* how many output rows the pair p must give when the right data is R
ExpectedRows(R, p) ==
    IF p[1] # NoneRow /\ p[2] # NoneRow
    THEN Cardinality({ij \in (1..Len(seq)) \X (1..Len(R)) :
            seq[ij[1]] = p[1] /\ R[ij[2]] = p[2] /\ KeysEqual(R, ij[1], ij[2])})
    ELSE IF p[1] # NoneRow
    THEN IF t.how \in {"left", "outer"}
         THEN Cardinality({i \in 1..Len(seq) :
                seq[i] = p[1] /\ \A j \in 1..Len(R) : ~KeysEqual(R, i, j)})
         ELSE 0
    ELSE IF p[2] # NoneRow
    THEN IF t.how \in {"right", "outer"}
         THEN Cardinality({j \in 1..Len(R) :
                R[j] = p[2] /\ \A i \in 1..Len(seq) : ~KeysEqual(R, i, j)})
         ELSE 0
    ELSE 0

\* every pair that left and right rows (or None) can form, and those yielded
CandidatePairs(R) ==
    ((Range(seq) \cup {NoneRow}) \X (Range(R) \cup {NoneRow})) \cup Range(pairs)

NonKeyCount(fields, on) == Cardinality({i \in 1..Len(fields) : fields[i] \notin Range(on.cols)})

\* C5: every key-equal (left row, right row) pair gives exactly one output
\* row under every how; a left row without a key-equal right row gives one
\* row, its right non-key columns all None, under left and outer and none
\* under inner and right; symmetrically for right rows under right and
\* outer; there are no other rows.
C5_JoinRows ==
    pc = "done" =>
        /\ \A p \in CandidatePairs(rhs) : Occurrences(pairs, p) = ExpectedRows(rhs, p)
        /\ Len(out) = Len(pairs)
        /\ \A k \in 1..Len(out) :
            LET nl == NonKeyCount(t.lhs.fields, t.on_left)
                nr == NonKeyCount(t.rhs.fields, t.on_right)
                nk == Len(listpack(t.on_left))
            IN  /\ Len(out[k]) = nk + nl + nr
                /\ pairs[k][2] = NoneRow =>
                     /\ \A i \in 1..nr : out[k][nk + nl + i] = NoneVal
                     /\ \A i \in 1..(nk + nl) : out[k][i] \in Range(pairs[k][1])
                /\ pairs[k][1] = NoneRow =>
                     /\ \A i \in 1..nl : out[k][nk + i] = NoneVal
                     /\ \A i \in 1..nk : out[k][i] \in Range(pairs[k][2])
                     /\ \A i \in 1..nr : out[k][nk + nl + i] \in Range(pairs[k][2])

\* the outer-fill example: left [(1, a, 1)], right [(z, 3, 1)], how = outer
C5_Witness ==
    /\ pc = "done"
    /\ ~same
    /\ t.how = "outer"
    /\ t.on_left = OnList(<<"id", "acct">>)
    /\ seq = <<<<"1", "a", "1">>>>
    /\ rhs = <<<<"z", "3", "1">>>>
    /\ out = <<<<"3", "1", NoneVal, "z">>, <<"1", "1", "a", NoneVal>>>>

\* the value that the schema field (side, name) has in the pair p
FieldValue(side, name, p) ==
    IF side = "L"
    THEN IF p[1] # NoneRow THEN p[1][Index(t.lhs.fields, name)]
         ELSE IF name \in Range(listpack(t.on_left))
              THEN p[2][Index(t.rhs.fields,
                              listpack(t.on_right)[Index(listpack(t.on_left), name)])]
              ELSE NoneVal
    ELSE IF p[2] # NoneRow THEN p[2][Index(t.rhs.fields, name)] ELSE NoneVal

\* C6: every row Join outputs has its values in the column order of
\* Join.schema: position i holds the value of the i-th schema field, for
\* single and multi-column keys in any order and for rows missing a side.
C6_RowsFollowSchema ==
    \A k \in 1..Len(out) :
        LET sch == JoinSchemaOrigin(t)
        IN  /\ Len(out[k]) = Len(sch)
            /\ \A i \in 1..Len(sch) :
                  out[k][i] = FieldValue(sch[i][1], sch[i][2], pairs[k])

\* C8: a self-join over one single-pass iterator tees the stream, so each
\* side sees every element exactly once: what the left side has pulled and
\* the right side has not yet been handed waits in the right branch's
\* buffer, and the result is the join of two full copies of the sequence.
C8_SelfJoinTee ==
    (same /\ pc # "call") =>
        /\ tee # <<>>
        /\ rpulled <= pulled
        /\ tee[2] = SubSeq(seq, rpulled + 1, pulled)
        /\ pc = "done" =>
            /\ pulled = Len(seq)
            /\ rpulled = Len(seq)
            /\ \A p \in CandidatePairs(seq) :
                  Occurrences(pairs, p) = ExpectedRows(seq, p)

C8_Witness ==
    /\ same
    /\ pc = "done"
    /\ t.how = "inner"
    /\ t.on_left = OnStr("id")
    /\ seq = <<<<"1", "a", "1">>, <<"1", "b", "2">>>>
    /\ Len(pairs) = 4

(***************************************************************************)
(* Join.schema over the Join nodes that join() builds                      *)
(***************************************************************************)
SchemaKeys ==
    {OnStr("user_id"), OnStr("id"), OnList(<<"user_id">>),
     OnList(<<"id", "user_id">>), OnList(<<"user_id", "id">>)}

SchemaJoins ==
    {Join(TableSymbol("orders", <<"id", "user_id", "amount">>, <<ti, <<"int32">>, ta>>),
          TableSymbol("users", <<"name", "user_id", "id">>, <<tn, <<"int32">>, tj>>),
          k, k, how) :
        ti \in {<<"int32">>, <<"Option", "int32">>},
        ta \in {<<"int32">>, <<"Option", "int32">>},
        tn \in {<<"string">>, <<"Option", "string">>},
        tj \in {<<"int32">>, <<"Option", "int32">>},
        k \in SchemaKeys, how \in Hows}

\* get(on_left, lhs.schema[0]) == get(on_right, rhs.schema[0]), the test of join()
KeyTypesMatch(e) ==
    \A k \in 1..Len(listpack(e.on_left)) :
        e.lhs.types[Index(e.lhs.fields, listpack(e.on_left)[k])]
          = e.rhs.types[Index(e.rhs.fields, listpack(e.on_right)[k])]

InitJoinSchema ==
    /\ t \in {e \in SchemaJoins : KeyTypesMatch(e)}
    /\ schema = <<>>
    /\ pc = "call"
    /\ seq = <<>> /\ seqtype = "list" /\ pulled = 0 /\ out = <<>>
    /\ rhs = <<>> /\ rpulled = 0 /\ same = FALSE /\ tee = <<>> /\ pairs = <<>>
    /\ IdleReduction /\ IdleDict /\ IdleDistinct
    /\ IdleLater

\* the property Join.schema, evaluated
SchemaEval ==
    /\ pc = "call"
    /\ schema' = JoinSchema(t)
    /\ pc' = "done"
    /\ UNCHANGED <<laterLocals, t, seq, seqtype, distinctLocals, pulled, out, rhs, rpulled, same, tee, pairs,
                   reductionLocals, dictLocals>>

NextJoinSchema == SchemaEval

SpecJoinSchema == InitJoinSchema /\ [][NextJoinSchema]_vars

\* the declared type of column name of table e
DeclaredType(e, name) == e.types[Index(e.fields, name)]

\* a type made optional once
Optional(dt) == IF dt[1] = "Option" THEN dt ELSE <<"Option">> \o dt

\* C7: in Join.schema every left column that is not an on_left key column
\* has an Option type when how is right or outer, every right column that is
\* not an on_right key column has one when how is left or outer, key columns
\* and the preserved side keep their declared type, and no Option is
\* wrapped twice.
C7_SchemaOptions ==
    pc = "done" =>
        \A i \in 1..Len(schema) :
            LET side == JoinSchemaOrigin(t)[i][1]
                name == schema[i][1]
                dt == schema[i][2]
            IN  IF side = "L"
                THEN IF name \in Range(listpack(t.on_left))
                     THEN dt = DeclaredType(t.lhs, name)
                     ELSE IF t.how \in {"right", "outer"}
                          THEN dt = Optional(DeclaredType(t.lhs, name))
                          ELSE dt = DeclaredType(t.lhs, name)
                ELSE IF name \in Range(listpack(t.on_right))
                     THEN dt = DeclaredType(t.rhs, name)
                     ELSE IF t.how \in {"left", "outer"}
                          THEN dt = Optional(DeclaredType(t.rhs, name))
                          ELSE dt = DeclaredType(t.rhs, name)

(***************************************************************************)
(* compute_up(Distinct, Sequence)                                          *)
(*                                                                         *)
(* A row is <<"tuple", cells>> or <<"list", cells>>: Python tells a list   *)
(* from a tuple with the same cells, and a list cannot be hashed.          *)
(***************************************************************************)
Distinct(child) == [kind |-> "Distinct", child |-> child]

DistinctRows ==
    {<<"tuple", <<"Alice", 100, 1>>>>, <<"tuple", <<"Bob", 200, 2>>>>,
     <<"list", <<"Alice", 100, 1>>>>, <<"list", <<"Bob", 200, 2>>>>}

InitDistinct ==
    /\ t = Distinct(tbl)
    /\ seq \in SeqsUpTo(DistinctRows, MaxLen)
    /\ seqtype \in {"list", "Iterator"}
    /\ pulled = 0
    /\ out = <<>>
    /\ pc = "call"
    /\ row = <<>>
    /\ pending = <<>>
    /\ applied = 1
    /\ prev = <<>>
    /\ IdleReduction /\ IdleDict /\ IdleJoin
    /\ IdleLater

\* the [row] of concat([[row], seq]) left out
ReAddDropped(r) == <<>>

\* the [row] of concat([[row], seq]): the probed row goes back in front
ReAdd(r) == <<r>>

\* tuple(x)
Tuple(x) == <<"tuple", x[2]>>

\* the seq handed to unique: map(tuple, seq) when row is a list
Normalized(x) == IF row[1] = "list" THEN Tuple(x) ELSE x

\* hash(x) raises TypeError for a list
Hashable(x) == x[1] = "tuple"

\* unique's test with nothing ever found in seen
FreshAlways(x, s) == TRUE

\* unique's test "item not in seen"
Fresh(x, s) == x \notin s

\* what concat([[row], seq]) still has to give
Stream == pending \o SubSeq(seq, pulled + 1, Len(seq))

\* how many elements of Stream the next next() of unique takes: up to the
\* first one that is new, or that cannot be hashed; 0 when none is left
UniqueTakes ==
    IF \E i \in 1..Len(Stream) :
          ~Hashable(Normalized(Stream[i])) \/ Fresh(Normalized(Stream[i]), seen)
    THEN CHOOSE i \in 1..Len(Stream) :
            /\ ~Hashable(Normalized(Stream[i])) \/ Fresh(Normalized(Stream[i]), seen)
            /\ \A j \in 1..(i - 1) :
                  Hashable(Normalized(Stream[j])) /\ ~Fresh(Normalized(Stream[j]), seen)
    ELSE 0

\* the call: first(seq), return () on StopIteration, else re-add row and
\* return the lazy unique(seq); first() moves an iterator on by one element
\* and leaves a list or tuple as it is; only StopIteration is caught
DistinctCall ==
    /\ pc = "call"
    /\ IF seq = <<>>
       THEN /\ pc' = (IF seqtype = "IteratorRaises" THEN "TypeError" ELSE "done")
            /\ UNCHANGED <<laterLocals, row, pending, pulled>>
       ELSE /\ row' = seq[1]
            /\ pending' = ReAdd(seq[1])
            /\ pulled' = (IF seqtype \in {"Iterator", "IteratorRaises"} THEN 1 ELSE 0)
            /\ pc' = "lazy"
    /\ UNCHANGED <<laterLocals, t, seq, seqtype, out, applied, prev,
                   reductionLocals, dictLocals, joinLocals>>

\* one next() on unique(seq) that yields a row
UniqueNext ==
    /\ pc = "lazy"
    /\ UniqueTakes # 0
    /\ Hashable(Normalized(Stream[UniqueTakes]))
    /\ out' = Append(out, Normalized(Stream[UniqueTakes]))
    /\ seen' = seen \cup {Normalized(Stream[UniqueTakes])}
    /\ pulled' = pulled + (IF UniqueTakes > Len(pending)
                           THEN UniqueTakes - Len(pending) ELSE 0)
    /\ pending' = SubSeq(pending, UniqueTakes + 1, Len(pending))
    /\ UNCHANGED <<laterLocals, t, seq, seqtype, pc, row, applied, prev, d,
                   reductionLocals, joinLocals>>

\* one next() on unique(seq) that meets a list it cannot hash
UniqueTypeError ==
    /\ pc = "lazy"
    /\ UniqueTakes # 0
    /\ ~Hashable(Normalized(Stream[UniqueTakes]))
    /\ pulled' = pulled + (IF UniqueTakes > Len(pending)
                           THEN UniqueTakes - Len(pending) ELSE 0)
    /\ pending' = SubSeq(pending, UniqueTakes + 1, Len(pending))
    /\ pc' = "TypeError"
    /\ UNCHANGED <<laterLocals, t, seq, seqtype, out, row, applied, prev,
                   reductionLocals, dictLocals, joinLocals>>

\* one next() on unique(seq) that runs into the end of the input: the
\* StopIteration of a list, tuple or iterator, or the TypeError with which
\* the unique iterator of an earlier application ended
UniqueStop ==
    /\ pc = "lazy"
    /\ UniqueTakes = 0
    /\ pulled' = Len(seq)
    /\ pending' = <<>>
    /\ pc' = (IF seqtype = "IteratorRaises" THEN "TypeError" ELSE "done")
    /\ UNCHANGED <<laterLocals, t, seq, seqtype, out, row, applied, prev,
                   reductionLocals, dictLocals, joinLocals>>

\* compute_up(Distinct, ...) applied to the result of the first application:
\* the unique iterator (which gives the rows of out and then stops or raises
\* as the first application did), or the tuple () that an empty input gave
DistinctOfResult ==
    /\ pc \in {"done", "TypeError"}
    /\ applied = 1
    /\ applied' = 2
    /\ prev' = out
    /\ seq' = out
    /\ seqtype' = (IF seq = <<>> THEN "tuple"
                   ELSE IF pc = "TypeError" THEN "IteratorRaises" ELSE "Iterator")
    /\ pulled' = 0
    /\ out' = <<>>
    /\ seen' = {}
    /\ row' = <<>>
    /\ pending' = <<>>
    /\ pc' = "call"
    /\ UNCHANGED <<laterLocals, t, d, reductionLocals, joinLocals>>

NextDistinct ==
    \/ DistinctCall
    \/ UniqueNext
    \/ UniqueTypeError
    \/ UniqueStop
    \/ DistinctOfResult

SpecDistinct == InitDistinct /\ [][NextDistinct]_vars

\* the first occurrence of every distinct element of s, in order
RECURSIVE FirstOccurrences(_)
FirstOccurrences(s) ==
    IF s = <<>> THEN <<>>
    ELSE LET init == SubSeq(s, 1, Len(s) - 1)
         IN  IF s[Len(s)] \in Range(init) THEN FirstOccurrences(init)
             ELSE Append(FirstOccurrences(init), s[Len(s)])

\* C9: Distinct is idempotent: compute_up(Distinct) applied to the result of
\* compute_up(Distinct, S) gives the same sequence as compute_up(Distinct, S),
\* for every S up to the bound, with duplicates anywhere; a result that ends
\* in the TypeError of an unhashable row ends the same way the second time.
C9_DistinctIdempotent ==
    (applied = 2 /\ pc \in {"done", "TypeError"}) =>
        /\ out = prev
        /\ pc = "TypeError" <=> seqtype = "IteratorRaises"

C9_Witness ==
    /\ applied = 2
    /\ pc = "done"
    /\ Len(prev) = 2
    /\ out = prev
    /\ seen = Range(prev)

\* the rows of the first n elements of seq as unique sees them
Seen(n) == [i \in 1..n |-> Normalized(seq[i])]

KeyStr(name) == [form |-> "str", name |-> name]
KeyList(cols) == [form |-> "list", cols |-> cols]
KeyExpr(e) == [form |-> "expr", expr |-> e]

Sort(child, key, ascending) ==
    [kind |-> "Sort", child |-> child, key |-> key, ascending |-> ascending]

SortRows ==
    {<<"Alice", 1, 2>>, <<"Bob", 1, 1>>, <<"Carol", 2, 1>>, <<"Dan", 1, 2>>}

SortKeys ==
    {KeyStr("amount"), KeyStr("id"), KeyList(<<"amount">>),
     KeyList(<<"amount", "id">>), KeyList(<<"id", "amount">>),
     KeyExpr(Broadcast(tbl, "Neg", "amount", 0))}

Sorts == {Sort(tbl, k, a) : k \in SortKeys, a \in BOOLEAN}

InitSort ==
    /\ t \in Sorts
    /\ seq \in SeqsUpTo(SortRows, MaxLen)
    /\ seqtype \in {"list", "Iterator"}
    /\ pulled = 0
    /\ out = <<>>
    /\ pc = "call"
    /\ IdleLocals

\* key = rowfunc(t._child[t.key]) for a str, tuple or list, else rowfunc(t.key)
key(x) ==
    CASE t.key.form = "str" -> RowFunc(Field(t.child, t.key.name), x)
      [] t.key.form = "list" -> RowFunc(Projection(t.child, t.key.cols), x)
      [] t.key.form = "expr" -> RowFunc(t.key.expr, x)

\* Python's < on two tuples of ints of one length
RECURSIVE TupleLess(_, _)
TupleLess(a, b) ==
    IF a = <<>> THEN FALSE
    ELSE IF a[1] # b[1] THEN a[1] < b[1]
    ELSE TupleLess(Tail(a), Tail(b))

\* Python's < on two key values
KeyLess(a, b) == IF t.key.form = "list" THEN TupleLess(a, b) ELSE a < b

\* s with its elements in the opposite order
Reversed(s) == [i \in 1..Len(s) |-> s[Len(s) + 1 - i]]

\* the place of x in the sorted list s: behind every element that does not
\* have to come after it
InsertAt(s, x, reverse) ==
    LET after(e) == IF reverse THEN KeyLess(key(e), key(x))
                    ELSE KeyLess(key(x), key(e))
    IN  IF \E i \in 1..Len(s) : after(s[i])
        THEN CHOOSE i \in 1..Len(s) :
                after(s[i]) /\ \A j \in 1..(i - 1) : ~after(s[j])
        ELSE Len(s) + 1

RECURSIVE StableSort(_, _)
StableSort(s, reverse) ==
    IF s = <<>> THEN <<>>
    ELSE LET front == StableSort(SubSeq(s, 1, Len(s) - 1), reverse)
             x == s[Len(s)]
             i == InsertAt(front, x, reverse)
         IN  SubSeq(front, 1, i - 1) \o <<x>> \o SubSeq(front, i, Len(front))

\* a descending sort made by turning the ascending result around
sortedThenReversed(s, reverse) ==
    IF reverse THEN Reversed(StableSort(s, FALSE)) ELSE StableSort(s, FALSE)

\* sorted(seq, key=key, reverse=reverse): stable, also with reverse=True
sorted(s, reverse) == StableSort(s, reverse)

\* the whole handler: sorted() reads all of seq and returns a list
SortCall ==
    /\ pc = "call"
    /\ out' = sorted(seq, ~t.ascending)
    /\ pulled' = Len(seq)
    /\ pc' = "done"
    /\ UNCHANGED <<t, seq, seqtype, handlerLocals>>

NextSort == SortCall

SpecSort == InitSort /\ [][NextSort]_vars

\* what the keys of SortKeys mean on a row of tbl (name, amount, id)
KeyValue(x) ==
    CASE t.key = KeyStr("amount") -> <<x[2]>>
      [] t.key = KeyStr("id") -> <<x[3]>>
      [] t.key = KeyList(<<"amount">>) -> <<x[2]>>
      [] t.key = KeyList(<<"amount", "id">>) -> <<x[2], x[3]>>
      [] t.key = KeyList(<<"id", "amount">>) -> <<x[3], x[2]>>
      [] OTHER -> <<0 - x[2]>>

\* C11: Sort returns a permutation of the input ordered by the sort key,
\* non-decreasing when ascending and non-increasing when not, and rows with
\* equal keys keep the relative order they have in the input, in both
\* directions; a list key orders lexicographically.
C11_SortStable ==
    pc = "done" =>
        /\ Len(out) = Len(seq)
        /\ \A i, j \in 1..Len(out) :
              i < j => IF t.ascending
                       THEN ~TupleLess(KeyValue(out[j]), KeyValue(out[i]))
                       ELSE ~TupleLess(KeyValue(out[i]), KeyValue(out[j]))
        /\ \A k \in {KeyValue(x) : x \in SortRows} :
              SelectSeq(out, LAMBDA x : KeyValue(x) = k)
                = SelectSeq(seq, LAMBDA x : KeyValue(x) = k)

C11_Witness ==
    /\ pc = "done"
    /\ ~t.ascending
    /\ t.key = KeyList(<<"amount", "id">>)
    /\ seq = <<<<"Alice", 1, 2>>, <<"Carol", 2, 1>>, <<"Dan", 1, 2>>>>
    /\ out = <<<<"Carol", 2, 1>>, <<"Alice", 1, 2>>, <<"Dan", 1, 2>>>>

(***************************************************************************)
(* compute_up(Head, Sequence)                                              *)
(*                                                                         *)
(* The input is a list, a finite iterator, or (seqtype "cycle") an         *)
(* iterator without end that gives the elements of seq over and over.      *)
(***************************************************************************)
HeadNode(child, n) == [kind |-> "Head", child |-> child, n |-> n]

\* the n of "if t.n < 100"
EagerBelow == 100

HeadNs == {0, 1, 2, MaxLen, EagerBelow - 1, EagerBelow, EagerBelow + 1}

CycleLen == 2

InitHead ==
    /\ t \in {HeadNode(accounts, n) : n \in HeadNs}
    /\ seqtype \in {"list", "Iterator", "cycle"}
    /\ seq \in SeqsUpTo(AccountRows, IF seqtype = "cycle" THEN CycleLen ELSE MaxLen)
    /\ seqtype = "cycle" => seq # <<>>
    /\ pulled = 0
    /\ out = <<>>
    /\ pc = "call"
    /\ IdleLocals

\* the upstream has a k-th element
UpstreamHas(k) == seqtype = "cycle" \/ k <= Len(seq)

\* the k-th element of the upstream
Upstream(k) == seq[((k - 1) % Len(seq)) + 1]

\* a take that stops one element late
TakeMoreLate == pulled <= t.n

\* take(n, seq) still has elements to give: n have not been taken yet
TakeMore == pulled < t.n

\* the call: take(t.n, seq) is lazy; for t.n < 100 tuple() runs it to its end
\* before the handler returns, else the handler returns it as it is
HeadCall ==
    /\ pc = "call"
    /\ pc' = (IF t.n < EagerBelow THEN "tuple" ELSE "lazy")
    /\ UNCHANGED <<t, seq, seqtype, pulled, out, handlerLocals>>

\* one next() on take(t.n, seq) that gives an element
TakeNext ==
    /\ pc \in {"tuple", "lazy"}
    /\ TakeMore
    /\ UpstreamHas(pulled + 1)
    /\ pulled' = pulled + 1
    /\ out' = Append(out, Upstream(pulled + 1))
    /\ UNCHANGED <<t, seq, seqtype, pc, handlerLocals>>

\* one next() on take(t.n, seq) that stops: n elements taken, or the upstream
\* at its end
TakeStop ==
    /\ pc \in {"tuple", "lazy"}
    /\ ~TakeMore \/ ~UpstreamHas(pulled + 1)
    /\ pc' = "done"
    /\ UNCHANGED <<t, seq, seqtype, pulled, out, handlerLocals>>

NextHead == HeadCall \/ TakeNext \/ TakeStop

SpecHead == InitHead /\ [][NextHead]_vars

\* the handler and the consumer of its result keep running
SpecHeadFair == SpecHead /\ WF_vars(NextHead)

Min(a, b) == IF a < b THEN a ELSE b

HeadBounded ==
    /\ pulled <= t.n
    /\ Len(out) = pulled
    /\ \A k \in 1..Len(out) : out[k] = Upstream(k)
    /\ pc = "done" =>
          Len(out) = (IF seqtype = "cycle" THEN t.n ELSE Min(t.n, Len(seq)))

\* C12: Head yields the first min(n, length) rows in their order and never
\* pulls more than n elements from the upstream, so that over a stream
\* without end it still comes to its end, for n below 100 and from 100 on.
C12_HeadTerminates == []HeadBounded /\ <>(pc = "done")

C12_Witness ==
    /\ pc = "done"
    /\ seqtype = "cycle"
    /\ t.n = EagerBelow
    /\ Len(seq) = 2
    /\ pulled = EagerBelow
    /\ Len(out) = EagerBelow

(***************************************************************************)
(* union() and compute_up(Union, Sequence, tuple)                          *)
(***************************************************************************)
Union(chs) == [kind |-> "Union", children |-> chs]

MaxChildren == 3
MaxChildLen == 2
MaxUnionRows == 3

usa_accounts == TableSymbol("accounts", <<"name", "amount">>, <<<<"string">>, <<"int32">>>>)
euro_accounts == TableSymbol("euro_accounts", <<"name", "amount">>, <<<<"string">>, <<"int32">>>>)
other_accounts == TableSymbol("accounts", <<"name", "id">>, <<<<"string">>, <<"int32">>>>)
real_accounts == TableSymbol("accounts", <<"name", "amount">>, <<<<"string">>, <<"float64">>>>)

UnionRows == {<<"Alice", 100>>, <<"Bob", 200>>}

\* child.schema
SchemaOf(e) == <<e.fields, e.types>>

\* t is the argument tuple of union()
InitUnion ==
    /\ t \in SeqsUpTo({usa_accounts, euro_accounts, other_accounts, real_accounts},
                      MaxChildren)
    /\ children = <<>>
    /\ ci = 0
    /\ seq = <<>>
    /\ seqtype = "list"
    /\ pulled = 0
    /\ out = <<>>
    /\ pc = "union"
    /\ IdleExceptUnion

\* schemas = set(child.schema for child in children)
schemas == {SchemaOf(t[i]) : i \in 1..Len(t)}

\* union(*children) raising ValueError
UnionRaise ==
    /\ pc = "union"
    /\ Cardinality(schemas) # 1
    /\ pc' = "ValueError"
    /\ UNCHANGED <<t, seq, seqtype, pulled, out, unionLocals, exceptUnion>>

\* union(*children) returning Union(children)
UnionConstruct ==
    /\ pc = "union"
    /\ Cardinality(schemas) = 1
    /\ t' = Union(t)
    /\ pc' = "call"
    /\ UNCHANGED <<seq, seqtype, pulled, out, unionLocals, exceptUnion>>

RECURSIVE TotalLen(_)
TotalLen(ss) == IF ss = <<>> THEN 0 ELSE Len(ss[1]) + TotalLen(Tail(ss))

\* the sequences that the children of the node may have been computed to
ChildSequences(n) ==
    {cs \in [1..n -> SeqsUpTo(UnionRows, MaxChildLen)] : TotalLen(cs) <= MaxUnionRows}

\* compute_up(t, example, children) with the children's computed sequences,
\* example the first of them; the handler returns the lazy concat(children)
UnionCall ==
    /\ pc = "call"
    /\ \E cs \in ChildSequences(Len(t.children)) :
          /\ children' = cs
          /\ seq' = cs[1]
    /\ ci' = 1
    /\ pulled' = 0
    /\ pc' = "lazy"
    /\ UNCHANGED <<t, seqtype, out, exceptUnion>>

\* a concat that gives up at the first child that has nothing left
ConcatChildNoSkip ==
    IF ci <= Len(children) /\ pulled < Len(children[ci]) THEN ci
    ELSE IF ci + 1 <= Len(children) /\ children[ci + 1] # <<>> THEN ci + 1
    ELSE 0

\* concat's next(): the child the next element comes from, 0 when there is
\* none: the child being read if it has elements left, else the first
\* child after it that has any
ConcatChild ==
    IF ci <= Len(children) /\ pulled < Len(children[ci]) THEN ci
    ELSE IF \E c \in (ci + 1)..Len(children) : children[c] # <<>>
         THEN CHOOSE c \in (ci + 1)..Len(children) :
                 children[c] # <<>> /\ \A b \in (ci + 1)..(c - 1) : children[b] = <<>>
         ELSE 0

\* one next() on concat(children) that gives a row
ConcatNext ==
    /\ pc = "lazy"
    /\ ConcatChild # 0
    /\ ci' = ConcatChild
    /\ pulled' = (IF ConcatChild = ci THEN pulled + 1 ELSE 1)
    /\ out' = Append(out, children[ci'][pulled'])
    /\ UNCHANGED <<t, seq, seqtype, pc, children, exceptUnion>>

\* one next() on concat(children) that finds every child at its end
ConcatStop ==
    /\ pc = "lazy"
    /\ ConcatChild = 0
    /\ ci' = Len(children) + 1
    /\ pulled' = 0
    /\ pc' = "done"
    /\ UNCHANGED <<t, seq, seqtype, out, children, exceptUnion>>

NextUnion ==
    \/ UnionRaise
    \/ UnionConstruct
    \/ UnionCall
    \/ ConcatNext
    \/ ConcatStop

SpecUnion == InitUnion /\ [][NextUnion]_vars

\* how many rows the children before child c hold
RECURSIVE RowsBefore(_)
RowsBefore(c) == IF c <= 1 THEN 0 ELSE RowsBefore(c - 1) + Len(children[c - 1])

\* C13: the result of Union holds the rows of the children's sequences in
\* child order, each child's rows in their order, duplicates kept, its length
\* the sum of the children's lengths; union() builds the node only when all
\* children have one and the same schema and raises ValueError otherwise.
C13_UnionConcat ==
    /\ pc = "ValueError" =>
          ~(\E sch \in {SchemaOf(t[i]) : i \in 1..Len(t)} :
                \A i \in 1..Len(t) : t[i].fields = sch[1] /\ t[i].types = sch[2])
    /\ pc \in {"call", "lazy", "done"} =>
          /\ t.kind = "Union"
          /\ \A i, j \in 1..Len(t.children) :
                /\ t.children[i].fields = t.children[j].fields
                /\ t.children[i].types = t.children[j].types
    /\ pc = "done" =>
          /\ Len(children) = Len(t.children)
          /\ Len(out) = RowsBefore(Len(children) + 1)
          /\ \A c \in 1..Len(children) : \A i \in 1..Len(children[c]) :
                out[RowsBefore(c) + i] = children[c][i]

C13_Witness ==
    /\ pc = "done"
    /\ Len(children) = 3
    /\ children[1] = <<<<"Alice", 100>>>>
    /\ children[2] = <<>>
    /\ children[3] = <<<<"Alice", 100>>, <<"Bob", 200>>>>
    /\ out = <<<<"Alice", 100>>, <<"Alice", 100>>, <<"Bob", 200>>>>

(***************************************************************************)
(* summary() and compute_up(Summary, Sequence)                             *)
(***************************************************************************)
Summary(child, nms, values, keepdims) ==
    [kind |-> "Summary", child |-> child, names |-> nms, values |-> values,
     keepdims |-> keepdims]

\* a table of the given number of dimensions
NdTable(ndim) ==
    [kind |-> "Symbol", name |-> "t", fields |-> <<"name", "amount", "id">>,
     ndim |-> ndim]

\* the keyword arguments of the docstring's summary(...), and a count
SummaryKwargs(child) ==
    {<<"n", Reduction("count", Field(child, "id"), FALSE, <<0>>, FALSE)>>,
     <<"number", Reduction("nunique", Field(child, "id"), FALSE, <<0>>, FALSE)>>,
     <<"sum", Reduction("sum", Field(child, "amount"), FALSE, <<0>>, FALSE)>>}

\* the order of Python's < on the names used as keywords
NameOrder == <<"n", "number", "sum">>

\* items = sorted(kwargs.items(), key=first)
SortedItems(kwargs) ==
    LET present == SelectSeq(NameOrder, LAMBDA nm : \E kv \in kwargs : kv[1] = nm)
    IN  [i \in 1..Len(present) |-> CHOOSE kv \in kwargs : kv[1] = present[i]]

\* summary(**kwargs), with the table as the common sub-expression
summary(kwargs, child, keepdims) ==
    LET items == SortedItems(kwargs)
    IN  Summary(child, [i \in 1..Len(items) |-> items[i][1]],
                [i \in 1..Len(items) |-> items[i][2]], keepdims)

Summaries ==
    UNION {{summary(kw, NdTable(nd), kd) :
               kw \in (SUBSET SummaryKwargs(NdTable(nd))) \ {{}}, kd \in BOOLEAN} :
           nd \in {1, 2}}

SummaryRows == {<<"Alice", 100, 1>>, <<"Bob", 200, 2>>, <<"Alice", 50, 1>>, <<"Zed", 0, 0>>}

InitSummary ==
    /\ t \in Summaries
    /\ seq \in SeqsUpTo(SummaryRows, MaxLen)
    /\ seqtype \in {"list", "Iterator"}
    /\ pulled = 0
    /\ out = <<>>
    /\ pc = "summary"
    /\ datas = <<>>
    /\ consumed = <<>>
    /\ IdleExceptSummary

\* the test "expr._child.ndim != 1" put as "more than two dimensions"
NdimUnsupportedOver2(e) == e.child.ndim > 2

\* expr._child.ndim != 1
NdimUnsupported(e) == e.child.ndim # 1

\* compute_up(Summary, data) raising
SummaryRaise ==
    /\ pc = "summary"
    /\ NdimUnsupported(t)
    /\ pc' = "NotImplementedError"
    /\ UNCHANGED <<t, seq, seqtype, pulled, out, summaryLocals, exceptSummary>>

\* compute_up(Summary, data) going on: an iterator is teed once per value
SummaryCall ==
    /\ pc = "summary"
    /\ ~NdimUnsupported(t)
    /\ datas' = (IF seqtype = "Iterator"
                 THEN [k \in 1..Len(t.values) |-> <<>>] ELSE <<>>)
    /\ pc' = "values"
    /\ UNCHANGED <<t, seq, seqtype, pulled, out, consumed, exceptSummary>>

\* the value being computed: tuple(...) computes them one after the other
vi == Len(out) + 1

\* the data handed to the value being computed has a next element
DataHasNext ==
    IF seqtype = "Iterator"
    THEN datas[vi] # <<>> \/ pulled < Len(seq)
    ELSE Len(consumed) < Len(seq)

\* the read without the tee: every value reads the one iterator itself
SummaryReadShared ==
    /\ pc = "values"
    /\ vi <= Len(t.values)
    /\ DataHasNext
    /\ IF seqtype = "Iterator"
       THEN /\ consumed' = Append(consumed, seq[pulled + 1])
            /\ pulled' = pulled + 1
            /\ datas' = datas
       ELSE /\ consumed' = Append(consumed, seq[Len(consumed) + 1])
            /\ UNCHANGED <<datas, pulled>>
    /\ UNCHANGED <<t, seq, seqtype, out, pc, exceptSummary>>

\* compute(val, {expr._child: data}) reading one row: from a list, or from
\* its tee branch, which takes a new element from the iterator when its
\* buffer is empty and hands it to the other branches' buffers as well
SummaryRead ==
    /\ pc = "values"
    /\ vi <= Len(t.values)
    /\ DataHasNext
    /\ IF seqtype = "Iterator"
       THEN IF datas[vi] # <<>>
            THEN /\ consumed' = Append(consumed, datas[vi][1])
                 /\ datas' = [datas EXCEPT ![vi] = Tail(datas[vi])]
                 /\ pulled' = pulled
            ELSE /\ consumed' = Append(consumed, seq[pulled + 1])
                 /\ datas' = [k \in 1..Len(datas) |->
                                IF k = vi THEN datas[k]
                                ELSE Append(datas[k], seq[pulled + 1])]
                 /\ pulled' = pulled + 1
       ELSE /\ consumed' = Append(consumed, seq[Len(consumed) + 1])
            /\ UNCHANGED <<datas, pulled>>
    /\ UNCHANGED <<t, seq, seqtype, out, pc, exceptSummary>>

\* what a reduction of the Summary returns for the rows it has read
ReduceValue(val, rows) ==
    LET col == DeepMap(val.child, rows)
    IN  CASE val.kind = "sum" -> SumSeq(col)
          [] val.kind = "count" ->
                Cardinality({i \in 1..Len(col) : CountIncrement(col[i]) = 1})
          [] val.kind = "nunique" -> Cardinality(Range(col))

\* compute(val, {expr._child: data}) returning at the end of its data
SummaryValue ==
    /\ pc = "values"
    /\ vi <= Len(t.values)
    /\ ~DataHasNext
    /\ out' = Append(out, ReduceValue(t.values[vi], consumed))
    /\ consumed' = <<>>
    /\ UNCHANGED <<t, seq, seqtype, pulled, pc, datas, exceptSummary>>

\* the return statement
SummaryReturn ==
    /\ pc = "values"
    /\ vi > Len(t.values)
    /\ out' = (IF t.keepdims THEN <<out>> ELSE out)
    /\ pc' = "done"
    /\ UNCHANGED <<t, seq, seqtype, pulled, summaryLocals, exceptSummary>>

NextSummary ==
    \/ SummaryRaise
    \/ SummaryCall
    \/ SummaryRead
    \/ SummaryValue
    \/ SummaryReturn

SpecSummary == InitSummary /\ [][NextSummary]_vars

(***************************************************************************)
(* Reductions and summaries over something that is not one-dimensional     *)
(***************************************************************************)
InitUnsupported ==
    \/ /\ t \in {r \in Reductions : r.kind # "var" => ~r.unbiased}
       /\ seq \in SeqsUpTo(ReductionValues, MaxValues)
       /\ seqtype \in {"list", "Iterator"}
       /\ pulled = 0
       /\ out = <<>>
       /\ pc = "call"
       /\ IdleLocals
    \/ InitSummary

NextUnsupported == NextReduction \/ NextSummary

SpecUnsupported == InitUnsupported /\ [][NextUnsupported]_vars

\* C14: a reduction whose axis is not (0,) and a Summary whose child is not
\* one-dimensional end in NotImplementedError and return no value, and do so
\* before any element is pulled from the input.
C14_UnsupportedFailsFast ==
    LET unsupported == IF t.kind = "Summary" THEN t.child.ndim # 1
                       ELSE t.axis # <<0>>
    IN  /\ unsupported =>
              /\ pc \in {"call", "summary", "NotImplementedError"}
              /\ pulled = 0
              /\ out = <<>>
              /\ datas = <<>>
        /\ pc = "NotImplementedError" => unsupported

C14_Witness ==
    /\ pc = "NotImplementedError"
    /\ t.kind = "Summary"
    /\ t.child.ndim = 2
    /\ seqtype = "Iterator"
    /\ Len(seq) = 2
    /\ pulled = 0

(***************************************************************************)
(* recursive_rowfunc against compute_up(ElemWise, Sequence) node by node    *)
(***************************************************************************)
\* chains of element-wise nodes over tbl (name, amount, id)
ElemWiseExprs ==
    LET p == Projection(tbl, <<"id", "amount">>)
        r == ReLabel(p, <<<<"amount", "balance">>>>)
        f == Field(r, "balance")
        m == Map(f, "inc")
        q == Projection(p, <<"amount", "id">>)
    IN  {tbl, p, r, f, m, Map(m, "double"), Map(Map(f, "double"), "inc"),
         Label(m, "next"), Map(tbl, "spread"), Map(Map(tbl, "spread"), "double"),
         Broadcast(p, "Mul", "amount", 2), Broadcast(r, "Add", "balance", 1),
         q, Field(q, "id"), Projection(q, <<"id", "amount">>)}

\* e and the nodes below it along the child link
RECURSIVE Lineage(_)
Lineage(e) ==
    IF e.kind = "Symbol" THEN {e} ELSE {e} \cup Lineage(e.child)

\* the nodes above stop up to e, the lowest first: the order in which a
\* bottom-up evaluation reaches them
RECURSIVE PathUp(_, _)
PathUp(e, s) == IF e = s THEN <<>> ELSE Append(PathUp(e.child, s), e)

\* the data of node e given the rows of the table below it
RECURSIVE DataOf(_, _)
DataOf(e, rows) ==
    IF e.kind = "Symbol" THEN rows ELSE DeepMap(e, DataOf(e.child, rows))

InitFusion ==
    /\ t \in ElemWiseExprs
    /\ ancestor \in Lineage(t)
    /\ seq \in {DataOf(ancestor, rows) : rows \in SeqsUpTo(ByRows, MaxLen)}
    /\ seqtype = "list"
    /\ stage = seq
    /\ level = 0
    /\ pulled = 0
    /\ out = <<>>
    /\ pc = "call"
    /\ IdleExceptFusion

\* map(recursive_rowfunc(t, stop), seq)
FusedMap ==
    /\ pc = "call"
    /\ out' = [i \in 1..Len(seq) |-> rrowfunc(t, ancestor, seq[i])]
    /\ pc' = "nodes"
    /\ UNCHANGED <<t, seq, seqtype, pulled, fusionLocals, exceptFusion>>

\* compute_up(ElemWise, Sequence) for the next node above: func = rowfunc(t),
\* deepmap(func, seq, n=1)
ComputeUpElemWise ==
    /\ pc = "nodes"
    /\ level < Len(PathUp(t, ancestor))
    /\ stage' = DeepMap(PathUp(t, ancestor)[level + 1], stage)
    /\ level' = level + 1
    /\ UNCHANGED <<t, seq, seqtype, pulled, out, pc, ancestor, exceptFusion>>

\* the node-by-node evaluation has reached t
ComputeUpDone ==
    /\ pc = "nodes"
    /\ level = Len(PathUp(t, ancestor))
    /\ pc' = "done"
    /\ UNCHANGED <<t, seq, seqtype, pulled, out, fusionLocals, exceptFusion>>

NextFusion == FusedMap \/ ComputeUpElemWise \/ ComputeUpDone

SpecFusion == InitFusion /\ [][NextFusion]_vars

\* C15: recursive_rowfunc(t, stop) mapped over the rows of stop gives the
\* same sequence as evaluating the nodes from stop up to t one by one with
\* compute_up, the innermost first; it is the identity when t is stop.
C15_FusionEquivalence ==
    /\ pc = "done" => out = stage
    /\ (pc \in {"nodes", "done"} /\ t = ancestor) => out = seq

C15_Witness ==
    /\ pc = "done"
    /\ t = Map(Map(Field(ReLabel(Projection(tbl, <<"id", "amount">>),
                                 <<<<"amount", "balance">>>>), "balance"),
                       "double"), "inc")
    /\ ancestor = tbl
    /\ seq = <<<<"Alice", 100, 1>>, <<"Bob", -50, 1>>>>
    /\ level = 5
    /\ out = <<201, -99>>

(***************************************************************************)
(* merge()                                                                 *)
(***************************************************************************)
Merge(child, chs) == [kind |-> "Merge", child |-> child, children |-> chs]

MaxTables == 3

\* what merge() may be handed: accounts (name, amount), columns and
\* relabelled columns of it, and a table that is no part of accounts
MergeTables ==
    {accounts,
     Field(accounts, "amount"),
     Field(accounts, "name"),
     Label(Map(Field(accounts, "amount"), "double"), "new_amount"),
     Label(Field(accounts, "amount"), "name"),
     ReLabel(accounts, <<<<"amount", "balance">>>>),
     Symbol("other", <<"id", "balance">>)}

\* t is the argument tuple of merge()
InitMerge ==
    /\ t \in SeqsUpTo(MergeTables, MaxTables) \ {<<>>}
    /\ seq = <<>>
    /\ seqtype = "list"
    /\ pulled = 0
    /\ out = <<>>
    /\ pc = "merge"
    /\ IdleLocals

\* the sub-expressions all tables share
SharedSubterms(tables) ==
    {e \in Lineage(tables[1]) : \A i \in 1..Len(tables) : e \in Lineage(tables[i])}

\* how many nodes e has below it
RECURSIVE Depth(_)
Depth(e) == IF e.kind = "Symbol" THEN 0 ELSE 1 + Depth(e.child)

\* common_subexpression(*tables): the nearest node all tables share
common_subexpression(tables) ==
    CHOOSE e \in SharedSubterms(tables) :
        \A f \in SharedSubterms(tables) : Depth(f) <= Depth(e)

\* Merge.names: list(concat(child.names for child in self.children))
MergeNames(e) == Flatten([i \in 1..Len(e.children) |-> Fields(e.children[i])])

\* a test that looks at neighbours only
isdistinctNeighbours(nms) == \A i \in 1..(Len(nms) - 1) : nms[i] # nms[i + 1]

\* isdistinct(seq): len(seq) == len(set(seq))
isdistinct(nms) == Len(nms) = Cardinality(Range(nms))

\* common_subexpression raises: "No common sub expression found"
MergeNoCommon ==
    /\ pc = "merge"
    /\ SharedSubterms(t) = {}
    /\ pc' = "ValueError"
    /\ UNCHANGED <<t, seq, seqtype, pulled, out, handlerLocals>>

\* the Merge is built and its names are not distinct: "Repeated columns found"
MergeRepeated ==
    /\ pc = "merge"
    /\ SharedSubterms(t) # {}
    /\ ~isdistinct(MergeNames(Merge(common_subexpression(t), t)))
    /\ pc' = "ValueError"
    /\ UNCHANGED <<t, seq, seqtype, pulled, out, handlerLocals>>

\* return result
MergeReturn ==
    /\ pc = "merge"
    /\ SharedSubterms(t) # {}
    /\ isdistinct(MergeNames(Merge(common_subexpression(t), t)))
    /\ out' = Merge(common_subexpression(t), t)
    /\ pc' = "done"
    /\ UNCHANGED <<t, seq, seqtype, pulled, handlerLocals>>

NextMerge == MergeNoCommon \/ MergeRepeated \/ MergeReturn

SpecMerge == InitMerge /\ [][NextMerge]_vars

\* the field names of the tables, one after the other
RECURSIVE AllNames(_)
AllNames(tables) ==
    IF tables = <<>> THEN <<>> ELSE Fields(tables[1]) \o AllNames(Tail(tables))

\* C16: merge() returns a Merge node only when the tables share a common
\* sub-expression and their field names, taken together, are pairwise
\* distinct; otherwise it raises ValueError and returns no node.
C16_MergeChecks ==
    LET shared == \E e \in MergeTables : \E c \in Lineage(e) :
                      \A i \in 1..Len(t) : c \in Lineage(t[i])
        distinct == \A i, j \in 1..Len(AllNames(t)) :
                      i # j => AllNames(t)[i] # AllNames(t)[j]
    IN  /\ pc = "done" =>
              /\ shared /\ distinct
              /\ out.kind = "Merge"
              /\ out.children = t
              /\ \A i \in 1..Len(t) : out.child \in Lineage(t[i])
        /\ pc = "ValueError" => (out = <<>> /\ ~(shared /\ distinct))

C16_Witness ==
    /\ pc = "ValueError"
    /\ t = <<Field(accounts, "name"), Field(accounts, "amount"),
             Label(Field(accounts, "amount"), "name")>>

(***************************************************************************)
(* join()                                                                  *)
(***************************************************************************)
\* on_left / on_right not given: None
OnNone == [islist |-> FALSE, cols |-> <<>>]

\* "not on": None, an empty str and an empty list are all false
Falsy(on) == on.cols = <<>>

JoinLefts ==
    {TableSymbol("orders", <<"id", "user_id", "amount">>, <<<<"int32">>, tu, <<"int32">>>>) :
        tu \in {<<"int32">>, <<"int64">>}}

JoinRights ==
    {TableSymbol("users", <<"name", "user_id", "id">>, <<<<"string">>, tu, ti>>) :
        tu \in {<<"int32">>, <<"Option", "int32">>},
        ti \in {<<"int32">>, <<"string">>}}
    \cup {TableSymbol("users", <<"name", "user_id">>, <<<<"string">>, <<"int32">>>>)}

JoinOns ==
    {OnNone, OnStr("id"), OnStr("user_id"), OnList(<<"user_id">>),
     OnList(<<"id", "user_id">>), OnList(<<"user_id", "id">>)}

JoinHows == {"inner", "outer", "left", "right", "INNER", "Outer", "cross", ""}

\* the arguments of join(): the key columns exist in their tables, and an
\* on_right is given only together with an on_left
JoinArgs ==
    {a \in [lhs : JoinLefts, rhs : JoinRights, on_left : JoinOns,
            on_right : JoinOns, how : JoinHows] :
        /\ Range(a.on_left.cols) \subseteq Range(a.lhs.fields)
        /\ Range(a.on_right.cols) \subseteq Range(a.rhs.fields)
        /\ Falsy(a.on_right) => Range(a.on_left.cols) \subseteq Range(a.rhs.fields)
        /\ Falsy(a.on_left) => Falsy(a.on_right)}

InitJoinArgs ==
    /\ t \in JoinArgs
    /\ seq = <<>>
    /\ seqtype = "list"
    /\ pulled = 0
    /\ out = <<>>
    /\ pc = "join"
    /\ IdleLocals

\* str.lower() on the values of JoinHows
lower(h) ==
    CASE h = "INNER" -> "inner"
      [] h = "Outer" -> "outer"
      [] OTHER -> h

\* unpack(list(sorted(set(lhs.names) & set(rhs.names), key=lhs.names.index)))
SharedNames(l, r) ==
    LET shared == SelectSeq(l.fields, LAMBDA nm : nm \in Range(r.fields))
    IN  IF Len(shared) = 1 THEN OnStr(shared[1]) ELSE OnList(shared)

\* on_left and on_right after the defaults of join()
ResolvedLeft(a) ==
    IF Falsy(a.on_left) /\ Falsy(a.on_right) THEN SharedNames(a.lhs, a.rhs)
    ELSE a.on_left

ResolvedRight(a) ==
    IF Falsy(a.on_left) /\ Falsy(a.on_right) THEN SharedNames(a.lhs, a.rhs)
    ELSE IF Falsy(a.on_right) THEN a.on_left
    ELSE a.on_right

\* a comparison of the first key column only
KeyTypesFirst(on, tab) ==
    [islist |-> on.islist,
     types |-> [i \in 1..(IF on.cols = <<>> THEN 0 ELSE 1) |->
                   tab.types[Index(tab.fields, on.cols[i])]]]

\* get(on, table.schema[0]): the type of the column for a str, the tuple of
\* the columns' types for a list
KeyTypes(on, tab) ==
    [islist |-> on.islist,
     types |-> [i \in 1..Len(on.cols) |-> tab.types[Index(tab.fields, on.cols[i])]]]

\* "Schema's of joining columns do not match"
JoinTypeError ==
    /\ pc = "join"
    /\ KeyTypes(ResolvedLeft(t), t.lhs) # KeyTypes(ResolvedRight(t), t.rhs)
    /\ pc' = "TypeError"
    /\ UNCHANGED <<t, seq, seqtype, pulled, out, handlerLocals>>

\* "How parameter should be one of inner, outer, left, right"
JoinValueError ==
    /\ pc = "join"
    /\ KeyTypes(ResolvedLeft(t), t.lhs) = KeyTypes(ResolvedRight(t), t.rhs)
    /\ lower(t.how) \notin Hows
    /\ pc' = "ValueError"
    /\ UNCHANGED <<t, seq, seqtype, pulled, out, handlerLocals>>

\* return Join(lhs, rhs, _on_left, _on_right, how)
JoinReturn ==
    /\ pc = "join"
    /\ KeyTypes(ResolvedLeft(t), t.lhs) = KeyTypes(ResolvedRight(t), t.rhs)
    /\ lower(t.how) \in Hows
    /\ out' = Join(t.lhs, t.rhs, ResolvedLeft(t), ResolvedRight(t), lower(t.how))
    /\ pc' = "done"
    /\ UNCHANGED <<t, seq, seqtype, pulled, handlerLocals>>

NextJoinArgs == JoinTypeError \/ JoinValueError \/ JoinReturn

SpecJoinArgs == InitJoinArgs /\ [][NextJoinArgs]_vars

\* the declared types of the columns cols of table tab
ColumnTypes(tab, cols) == [i \in 1..Len(cols) |-> DeclaredType(tab, cols[i])]

\* the key columns join() works with when a side is not given
EffectiveLeft(a) ==
    IF a.on_left.cols # <<>> THEN a.on_left.cols
    ELSE SelectSeq(a.lhs.fields, LAMBDA nm : nm \in Range(a.rhs.fields))

EffectiveRight(a) ==
    IF a.on_right.cols # <<>> THEN a.on_right.cols ELSE EffectiveLeft(a)

ValidHow(h) == h \in {"inner", "outer", "left", "right", "INNER", "Outer"}

Sequence == {"tuple", "list", "Iterator", "dict_items"}

\* the Reduction classes of expr/table.py
ReductionClasses ==
    {"any", "all", "sum", "max", "min", "mean", "var", "std", "count", "nunique"}

\* issubclass(a, b) over the node classes and the classes of the data
Subclass(a, b) ==
    \/ a = b
    \/ b = "object"
    \/ b = "Reduction" /\ a \in ReductionClasses
    \/ b = "Iterator" /\ a = "generator"
    \/ b = "Iterable" /\ a \in Sequence \cup {"generator", "set"}

\* one @dispatch(node, data) def compute_up_1d: the handler is named after it
Decorator(name, node, data) == [name |-> name, node |-> node, data |-> data]

\* the six registrations of compute_up_1d in compute/python.py
PythonDecorators ==
    {Decorator("Reduction", "Reduction", Sequence)} \cup
    {Decorator(k, k, Sequence) : k \in {"count", "nunique", "mean", "var", "std"}}

\* registrations another module can add to the same dispatcher: the pattern of
\* count for iterators once more, and count over every iterable
OverlappingDecorators ==
    {Decorator("Reduction", "Reduction", Sequence),
     Decorator("count", "count", Sequence),
     Decorator("var", "var", Sequence),
     Decorator("count_again", "count", {"Iterator"}),
     Decorator("count_iterable", "count", {"Iterable"})}

\* a tuple of types in a signature stands for one signature per member
Signatures(dec) == {<<dec.node, ty>> : ty \in dec.data}

\* what one call is made with: the class of the node and of the data
CallNodes == {"sum", "max", "count", "nunique", "mean", "var", "std"}
CallDatas == {"tuple", "list", "generator", "dict_items", "set"}

InitDispatcher(decs) ==
    /\ t = <<>> /\ seq = <<>> /\ seqtype = "none" /\ pulled = 0 /\ out = "none"
    /\ pc = "import"
    /\ IdleExceptDispatch
    /\ registry = <<>> /\ ordering = {} /\ resolving = TRUE /\ unresolved = FALSE
    /\ registered = <<>>
    /\ available = decs

InitDispatch == InitDispatcher(PythonDecorators)

InitOverlapping == InitDispatcher(OverlappingDecorators)

\* halt_ordering(): registrations only mark their dispatcher as unresolved
HaltOrdering ==
    /\ pc = "import"
    /\ resolving
    /\ resolving' = FALSE
    /\ UNCHANGED <<t, seq, seqtype, pulled, out, pc, registry, ordering,
                   unresolved, registered, available, exceptDispatch>>

\* Dispatcher.add: funcs[signature] = func for every signature of the
\* decorator, a signature already there is overwritten; then reorder()
Register ==
    /\ pc = "import"
    /\ \E dec \in available :
        /\ \A i \in 1..Len(registered) : registered[i] # dec
        /\ registry' = [s \in DOMAIN registry \cup Signatures(dec) |->
                            IF s \in Signatures(dec) THEN dec.name ELSE registry[s]]
        /\ registered' = Append(registered, dec)
    /\ IF resolving
       THEN ordering' = DOMAIN registry' /\ unresolved' = FALSE
       ELSE ordering' = ordering /\ unresolved' = TRUE
    /\ UNCHANGED <<t, seq, seqtype, pulled, out, pc, resolving, available,
                   exceptDispatch>>

\* restart_ordering(): every unresolved dispatcher is reordered; an ambiguity
\* found then is reported by warnings.warn(AmbiguityWarning), nothing is raised
RestartOrdering ==
    /\ pc = "import"
    /\ ~resolving
    /\ resolving' = TRUE
    /\ ordering' = IF unresolved THEN DOMAIN registry ELSE ordering
    /\ unresolved' = FALSE
    /\ UNCHANGED <<t, seq, seqtype, pulled, out, pc, registry, registered,
                   available, exceptDispatch>>

\* all(map(issubclass, types, signature))
Matches(types, sig) == Subclass(types[1], sig[1]) /\ Subclass(types[2], sig[2])

\* supercedes(a, b): a is at least as specific as b
supercedes(a, b) == Subclass(a[1], b[1]) /\ Subclass(a[2], b[2])

\* edge(a, b) of ordering(): a has to come before b
edge(a, b) == supercedes(a, b) /\ ~supercedes(b, a)

\* the matching signatures of the decorator that was applied first
FirstRegisteredMatches(types) ==
    LET hits(i) == {s \in Signatures(registered[i]) \cap ordering : Matches(types, s)}
        firsts == {i \in 1..Len(registered) :
                      /\ hits(i) # {}
                      /\ \A j \in 1..(i-1) : hits(j) = {}}
    IN UNION {hits(i) : i \in firsts}

\* Dispatcher.resolve walks self.ordering, a topological sort of edge, and
\* takes the first signature that matches: in one sort or another that is any
\* matching signature that no other matching signature has to come before
FirstMatches(types) ==
    {s \in ordering :
        /\ Matches(types, s)
        /\ \A a \in ordering : Matches(types, a) => ~edge(a, s)}

\* compute_up(Reduction, Sequence) calls compute_up_1d(t, seq): the handler found
CallReturn ==
    /\ pc = "import"
    /\ \E node \in CallNodes, data \in CallDatas :
        /\ t' = <<node, data>>
        /\ \E s \in FirstMatches(<<node, data>>) : out' = registry[s]
    /\ pc' = "returned"
    /\ UNCHANGED <<seq, seqtype, pulled, dispatchLocals, exceptDispatch>>

\* no signature matches: Dispatcher.__call__ raises NotImplementedError
CallNotImplemented ==
    /\ pc = "import"
    /\ \E node \in CallNodes, data \in CallDatas :
        /\ t' = <<node, data>>
        /\ FirstMatches(<<node, data>>) = {}
    /\ pc' = "NotImplementedError"
    /\ UNCHANGED <<seq, seqtype, pulled, out, dispatchLocals, exceptDispatch>>

NextDispatch ==
    HaltOrdering \/ Register \/ RestartOrdering \/ CallReturn \/ CallNotImplemented

SpecDispatch == InitDispatch /\ [][NextDispatch]_vars

SpecOverlapping == InitOverlapping /\ [][NextDispatch]_vars

\* the names of the decorators applied so far
RegisteredNames == {registered[i].name : i \in 1..Len(registered)}

\* the position at which the decorator of that name was applied
RegisteredAt(name) == CHOOSE i \in 1..Len(registered) : registered[i].name = name

\* C18: once the ordering is done, a call of compute_up_1d on a count, nunique,
\* mean, var or std node with sequence data runs the handler registered for
\* that class if there is one, the generic Reduction handler runs only for a
\* class with no handler of its own, and this is so whether the generic
\* handler was registered before or after; data that is no sequence finds no
\* handler
C18_MostSpecificHandler ==
    (pc \in {"returned", "NotImplementedError"} /\ ~unresolved) =>
        IF \A ty \in Sequence : ~Subclass(t[2], ty)
        THEN pc = "NotImplementedError"
        ELSE IF t[1] \in RegisteredNames
        THEN pc = "returned" /\ out = t[1]
        ELSE IF "Reduction" \in RegisteredNames
        THEN pc = "returned" /\ out = "Reduction"
        ELSE pc = "NotImplementedError"

\* the generic handler was registered first, the handler of count after it,
\* and a call on a count node over a generator ran the handler of count
C18_Witness ==
    /\ pc = "returned"
    /\ ~unresolved
    /\ t = <<"count", "generator">>
    /\ {"Reduction", "count"} \subseteq RegisteredNames
    /\ RegisteredAt("Reduction") < RegisteredAt("count")
    /\ out = "count"

\* the signatures of the i-th applied decorator that match the types and that
\* no matching signature of any applied decorator is more specific than
MostSpecific(i, types) ==
    {s \in Signatures(registered[i]) :
        /\ Matches(types, s)
        /\ \A j \in 1..Len(registered) : \A a \in Signatures(registered[j]) :
              Matches(types, a) => ~edge(a, s)}

\* two of the applied decorators are equally specific for the types: each has
\* a matching pattern that nothing registered is more specific than
EquallySpecific(types) ==
    \E i, j \in 1..Len(registered) :
        /\ i # j
        /\ MostSpecific(i, types) # {}
        /\ MostSpecific(j, types) # {}

\* C19: when two handlers of compute_up_1d with equally specific, overlapping
\* patterns have been registered, the first call they both match has raised
\* AmbiguousDispatchError and has not run one of them
C19_AmbiguousDispatchRaises ==
    (pc # "import" /\ ~unresolved /\ EquallySpecific(t)) =>
        pc = "AmbiguousDispatchError"

\* ---------------------------------------------------------------------------
\* create_index on a SQL table, as exercised by tests/test_sql.py
\* ---------------------------------------------------------------------------

MaxColumns == 2

\* the fixture: SQL('sqlite:///:memory:', 'foo', schema='{x: int, y: int}')
TableColumns == {"x", "y"}

\* the column names the calls are made with; z is no column of the table
ColumnNames == TableColumns \cup {"z"}

\* name=None, the default of create_index
NameNone == "<None>"

IndexNames == {NameNone, "idx", "idx_xy"}

\* the second argument: one column name, or a list of them
ColumnArgs ==
    {[kind |-> "str", columns |-> <<c>>] : c \in ColumnNames} \cup
    {[kind |-> "list", columns |-> cs] :
        cs \in UNION {[1..n -> ColumnNames] : n \in 1..MaxColumns}}

InitSql ==
    /\ t = <<>> /\ seq = <<>> /\ seqtype = "none" /\ pulled = 0 /\ out = <<>>
    /\ pc = "fixture"
    /\ IdleExceptSql
    /\ indexes = {}

\* the names of the indexes the database has
ExistingNames == {ix.name : ix \in indexes}

\* only the first column is looked up
MissingFirstColumn(columns) == columns[1] \notin TableColumns

\* getattr(s.table.c, column) fails for one of the columns
MissingColumn(columns) == \E i \in 1..Len(columns) : columns[i] \notin TableColumns

\* create_index(s, column, name=None) without a name
CreateIndexValueError ==
    /\ \E arg \in ColumnArgs : t' = [column |-> arg, name |-> NameNone]
    /\ pc' = "ValueError"
    /\ UNCHANGED <<seq, seqtype, pulled, out, indexes, exceptSql>>

\* a column that the table does not have
CreateIndexAttributeError ==
    /\ \E arg \in ColumnArgs, name \in IndexNames \ {NameNone} :
        /\ MissingColumn(arg.columns)
        /\ t' = [column |-> arg, name |-> name]
    /\ pc' = "AttributeError"
    /\ UNCHANGED <<seq, seqtype, pulled, out, indexes, exceptSql>>

\* CREATE INDEX fails in the database: the name is taken
CreateIndexOperationalError ==
    /\ \E arg \in ColumnArgs, name \in IndexNames \ {NameNone} :
        /\ ~MissingColumn(arg.columns)
        /\ name \in ExistingNames
        /\ t' = [column |-> arg, name |-> name]
    /\ pc' = "OperationalError"
    /\ UNCHANGED <<seq, seqtype, pulled, out, indexes, exceptSql>>

\* the index is created
CreateIndexReturn ==
    /\ \E arg \in ColumnArgs, name \in IndexNames \ {NameNone} :
        /\ ~MissingColumn(arg.columns)
        /\ name \notin ExistingNames
        /\ t' = [column |-> arg, name |-> name]
        /\ indexes' = indexes \cup
              {[name |-> name, columns |-> arg.columns]}
    /\ pc' = "created"
    /\ UNCHANGED <<seq, seqtype, pulled, out, exceptSql>>

NextSql ==
    \/ CreateIndexValueError
    \/ CreateIndexAttributeError
    \/ CreateIndexOperationalError
    \/ CreateIndexReturn

SpecSql == InitSql /\ [][NextSql]_vars

\* C20: every call of create_index ends as follows: without a name in
\* ValueError, whether or not the columns exist; with a name and a column the
\* table does not have, alone or in a list with existing ones, in
\* AttributeError; with a name and existing columns in OperationalError if an
\* index of that name was created before, and otherwise the index is created;
\* a call that fails leaves the indexes as they were
C20_CreateIndexOutcomes ==
    [][LET call == t'
           missing == \E i \in 1..Len(call.column.columns) :
                          call.column.columns[i] \notin TableColumns
       IN /\ pc' = IF call.name = NameNone THEN "ValueError"
                   ELSE IF missing THEN "AttributeError"
                   ELSE IF \E ix \in indexes : ix.name = call.name
                        THEN "OperationalError"
                   ELSE "created"
          /\ pc' = "created" =>
                /\ \E ix \in indexes' \ indexes :
                      ix.name = call.name /\ ix.columns = call.column.columns
                /\ indexes \subseteq indexes'
          /\ pc' # "created" => indexes' = indexes]_vars

\* a composite index idx_xy on x and y exists and a later call with that name,
\* for the one column x, ended in OperationalError
C20_Witness ==
    /\ pc = "OperationalError"
    /\ t.name = "idx_xy"
    /\ t.column = [kind |-> "str", columns |-> <<"x">>]
    /\ \E ix \in indexes : ix.name = "idx_xy" /\ ix.columns = <<"x", "y">>

\* ---------------------------------------------------------------------------
\* The two paths of compute_up(By, Sequence)
\* ---------------------------------------------------------------------------

\* the rows of s, in order, that the grouper sends to the key k
RECURSIVE RowsOfKey(_, _)
RowsOfKey(s, k) ==
    IF s = <<>> THEN <<>>
    ELSE IF grouper(s[1]) = k THEN <<s[1]>> \o RowsOfKey(Tail(s), k)
    ELSE RowsOfKey(Tail(s), k)

\* compute(t.apply, {t._child: v}) of the fallback path for a reduction e and
\* the rows v of one group: the apply's child is mapped over the rows, then
\* compute_up_1d reduces them, by the builtin of that name or, for count, by
\* cytoolz.count(filter(None, seq))
ComputeGroup(e, v) ==
    LET col == DeepMap(e.child, v)
    IN  CASE e.kind = "sum" -> SumSeq(col)
          [] e.kind = "min" -> CHOOSE m \in Range(col) : \A x \in Range(col) : m <= x
          [] e.kind = "max" -> CHOOSE m \in Range(col) : \A x \in Range(col) : m >= x
          [] e.kind = "count" ->
                Cardinality({i \in 1..Len(col) : CountIncrement(col[i]) = 1})

\* C21: when the grouped fold has read all rows, the accumulator of every
\* group is the value that the fallback path gives for the group: compute of
\* the apply reduction over the rows that have the key
C21_ByPathsAgree ==
    (pc = "items" /\ t.apply.kind \in BinopKinds) =>
        \A k \in DOMAIN d : d[k] = ComputeGroup(t.apply, RowsOfKey(seq, k))

\* ---------------------------------------------------------------------------
\* The binops table: folding two parts and merging them with the combiner
\* ---------------------------------------------------------------------------

MaxPart == 2

\* the reductions with an entry in binops
BinopsKeys == {"sum", "min", "max", "count", "any", "all"}

\* binops[kind][1]
Combiner(kind, a, b) ==
    CASE kind = "sum" -> a + b
      [] kind = "min" -> lesser(a, b)
      [] kind = "max" -> lesser(a, b)
      [] kind = "count" -> a + b
      [] kind = "any" -> (a \/ b)
      [] kind = "all" -> (a /\ b)

\* rows with an integer and a boolean column
PartRows == {<<1, TRUE>>, <<2, FALSE>>, <<0, TRUE>>}

\* the applier of a reduction: its column of the row, the boolean one for
\* any and all
Applier(kind, x) == IF kind \in {"any", "all"} THEN x[2] ELSE x[1]

\* the apply of the By: one reduction, or a Summary of one or two of them
Applies ==
    {[summary |-> FALSE, kinds |-> <<k>>] : k \in BinopsKeys} \cup
    {[summary |-> TRUE, kinds |-> <<k>>] : k \in BinopsKeys} \cup
    {[summary |-> TRUE, kinds |-> <<j, k>>] : j \in BinopsKeys, k \in BinopsKeys}

\* reduce_by_funcs(t): binop2, combiner and initial for the apply
ReduceByBinop2(apply, acc, x) ==
    IF apply.summary
    THEN [i \in 1..Len(apply.kinds) |->
             Binop(apply.kinds[i], acc[i], Applier(apply.kinds[i], x))]
    ELSE Binop(apply.kinds[1], acc, Applier(apply.kinds[1], x))

ReduceByCombiner(apply, a, b) ==
    IF apply.summary
    THEN [i \in 1..Len(apply.kinds) |-> Combiner(apply.kinds[i], a[i], b[i])]
    ELSE Combiner(apply.kinds[1], a, b)

ReduceByInitial(apply) ==
    IF apply.summary
    THEN [i \in 1..Len(apply.kinds) |-> Initial(apply.kinds[i])]
    ELSE Initial(apply.kinds[1])

\* reduce(binop2, s, acc)
RECURSIVE Fold(_, _, _)
Fold(apply, acc, s) ==
    IF s = <<>> THEN acc
    ELSE Fold(apply, ReduceByBinop2(apply, acc, s[1]), Tail(s))

InitCombiner ==
    /\ t \in {[apply |-> ap, A |-> a, B |-> b] :
                ap \in Applies,
                a \in SeqsUpTo(PartRows, MaxPart),
                b \in SeqsUpTo(PartRows, MaxPart)}
    /\ seq = t.A \o t.B
    /\ seqtype = "list"
    /\ pulled = 0
    /\ out = <<>>
    /\ pc = "fold"
    /\ IdleLocals

\* the two parts are folded, each from the initial accumulator
FoldParts ==
    /\ pc = "fold"
    /\ out' = <<Fold(t.apply, ReduceByInitial(t.apply), t.A),
                Fold(t.apply, ReduceByInitial(t.apply), t.B)>>
    /\ pc' = "combine"
    /\ UNCHANGED <<t, seq, seqtype, pulled, handlerLocals>>

\* the partial accumulators are merged
Combine ==
    /\ pc = "combine"
    /\ out' = <<ReduceByCombiner(t.apply, out[1], out[2])>>
    /\ pc' = "done"
    /\ UNCHANGED <<t, seq, seqtype, pulled, handlerLocals>>

NextCombiner == FoldParts \/ Combine

SpecCombiner == InitCombiner /\ [][NextCombiner]_vars

\* C22: for every entry of binops, alone or juxtaposed in a Summary, merging
\* the accumulators of two parts with the combiner gives the accumulator of
\* the fold over the first part followed by the second
C22_CombinerMerges ==
    pc = "done" => out[1] = Fold(t.apply, ReduceByInitial(t.apply), seq)

\* the position of a keyword in the order of the names
NameRank(nm) == CHOOSE i \in 1..Len(NameOrder) : NameOrder[i] = nm

\* the tuple that compute_up(Summary, data) returned, without the keepdims wrap
SummaryResult == IF t.keepdims THEN out[1] ELSE out

\* C23: compute_up(Summary, data) returns one entry per reduction, in the
\* order of the names, which summary() has sorted; each entry is the value of
\* its reduction over all the rows, for an iterator as for a list; a
\* reduction that has come to the end of its data has read every row once,
\* in order, and the iterator has handed out no row twice
C23_SummaryTee ==
    /\ pc \in {"values", "done"} =>
          \A i, j \in 1..Len(t.names) :
              i < j => NameRank(t.names[i]) < NameRank(t.names[j])
    /\ (pc = "values" /\ vi <= Len(t.values) /\ ~DataHasNext) => consumed = seq
    /\ pc = "values" =>
          /\ pulled <= Len(seq)
          /\ \A i \in 1..Len(out) : out[i] = ReduceValue(t.values[i], seq)
    /\ pc = "done" =>
          /\ Len(SummaryResult) = Len(t.names)
          /\ \A i \in 1..Len(t.values) :
                SummaryResult[i] = ReduceValue(t.values[i], seq)

\* an iterator over two rows went through a Summary of three reductions, and
\* the later ones still counted and summed both rows
C23_Witness ==
    /\ pc = "done"
    /\ seqtype = "Iterator"
    /\ ~t.keepdims
    /\ t.names = <<"n", "number", "sum">>
    /\ seq = <<<<"Alice", 100, 1>>, <<"Bob", 200, 2>>>>
    /\ out = <<2, 2, 300>>

\* ---------------------------------------------------------------------------
\* relabel(child, labels) and ReLabel.schema
\* ---------------------------------------------------------------------------

\* TableSymbol('accounts', '{name: string, amount: int32, id: int32}')
labelled ==
    TableSymbol("accounts", <<"name", "amount", "id">>, <<"string", "int32", "int32">>)

\* record-shaped and unit-shaped children
RelabelChildren ==
    {labelled, Field(labelled, "name"), Field(labelled, "amount"),
     Field(labelled, "id")}

\* the keys a labels dict may have, in the order of Python's < on them
LabelKeyOrder == <<"amount", "id", "name">>

NewNames == {"balance", "key"}

\* the labels dicts: any set of keys, each with a new name
LabelDicts == UNION {[ks -> NewNames] : ks \in SUBSET Range(LabelKeyOrder)}

\* the types of the fields of an expression
RECURSIVE TypesOf(_)
TypesOf(e) ==
    CASE e.kind = "Symbol" -> e.types
      [] e.kind = "Field" -> <<TypesOf(e.child)[Index(Fields(e.child), e.name)]>>
      [] OTHER -> TypesOf(e.child)

\* isunit(child.dshape.measure)
isunit(e) == e.kind \in {"Field", "Label"}

\* tuple(sorted(labels.items()))
SortedLabels(dict) ==
    LET ks == SelectSeq(LabelKeyOrder, LAMBDA k : k \in DOMAIN dict)
    IN  [i \in 1..Len(ks) |-> <<ks[i], dict[ks[i]]>>]

InitRelabel ==
    /\ t \in {[child |-> c, labels |-> l] : c \in RelabelChildren, l \in LabelDicts}
    /\ seq = <<>> /\ seqtype = "none" /\ pulled = 0 /\ out = <<>>
    /\ pc = "relabel"
    /\ IdleLocals

\* a unit-shaped child and an empty dict: labels[0] raises
RelabelIndexError ==
    /\ pc = "relabel"
    /\ isunit(t.child)
    /\ SortedLabels(t.labels) = <<>>
    /\ pc' = "IndexError"
    /\ UNCHANGED <<t, seq, seqtype, pulled, out, handlerLocals>>

\* a unit-shaped child: it is labelled when its name is the first key of the
\* sorted labels, and returned as it is otherwise
RelabelUnit ==
    /\ pc = "relabel"
    /\ isunit(t.child)
    /\ SortedLabels(t.labels) # <<>>
    /\ LET labels == SortedLabels(t.labels)
           result == IF Fields(t.child)[1] = labels[1][1]
                     THEN Label(t.child, labels[1][2])
                     ELSE t.child
       IN  out' = <<Fields(result), TypesOf(result)>>
    /\ pc' = "done"
    /\ UNCHANGED <<t, seq, seqtype, pulled, handlerLocals>>

\* a record-shaped child: ReLabel(child, labels), and the names and types of
\* its schema
RelabelRecord ==
    /\ pc = "relabel"
    /\ ~isunit(t.child)
    /\ LET result == ReLabel(t.child, SortedLabels(t.labels))
       IN  out' = <<Fields(result), TypesOf(result)>>
    /\ pc' = "done"
    /\ UNCHANGED <<t, seq, seqtype, pulled, handlerLocals>>

NextRelabel == RelabelIndexError \/ RelabelUnit \/ RelabelRecord

SpecRelabel == InitRelabel /\ [][NextRelabel]_vars

\* the name a field has after the renaming by the dict
Renamed(dict, nm) == IF nm \in DOMAIN dict THEN dict[nm] ELSE nm

\* C24: relabel(child, labels) returns an expression with the child's fields
\* in the same order and with the same types, every field whose name is a key
\* of labels under its new name and every other field under its own, for
\* record-shaped and unit-shaped children and any number of labels
C24_RelabelRenames ==
    pc # "relabel" =>
        /\ pc = "done"
        /\ out[2] = TypesOf(t.child)
        /\ out[1] = [i \in 1..Len(Fields(t.child)) |->
                        Renamed(t.labels, Fields(t.child)[i])]

====
